---------------------------- MODULE Spec2Model ----------------------------
(***************************************************************************)
(* Sensor-fusion notebook: LidarSensor, sense, sensor_fusion, shoot_rays,  *)
(* importance and get_distance over a 2-D occupancy grid.                  *)
(*                                                                         *)
(* Numbers.  Python floats are modelled in fixed point:                    *)
(*   - lengths and coordinates in thousandths of a cell (Milli);           *)
(*   - cos and sin in millionths, from a table of the 128 directions       *)
(*     i * 360/128 degrees, together with the sign and size of the         *)
(*     residue float64 leaves at the four axis directions, where the       *)
(*     exact value is 0 (cos(radians(270)) = -1.8369701987210297e-16);     *)
(*   - probabilities and weights as decimal floating-point numbers with a  *)
(*     four-digit mantissa and the exponent range of float64.              *)
(* max_range is a Python int, as in the notebook (max_sensor_range = 100). *)
(***************************************************************************)
EXTENDS Integers, Sequences, FiniteSets, TLC

VARIABLES grid, sensor, pc, call, ret, measured, memo, tasks,
          polygons, sample_list, to_keep, point_i

(* The random-sampling notebook's variables (sample_list is its list
   samples).                                                            *)
sampling == <<polygons, sample_list, to_keep, point_i>>

(* What the cells of the lidar notebook leave alone: the other notebook
   and the evaluations of importance in a round (tasks).                 *)
aside == <<sampling, tasks>>

vars == <<grid, sensor, pc, call, ret, measured, memo, tasks, sampling>>

(* ------------------------------ bounds -------------------------------- *)

GridW == 3
GridH == 3
MaxOccupied == 2

(* ------------------------- fixed-point numbers ------------------------ *)

Milli == 1000

Micro == Milli * Milli

Abs(n) == IF n < 0 THEN -n ELSE n

Sign(n) == IF n > 0 THEN 1 ELSE IF n < 0 THEN -1 ELSE 0

Min(a, b) == IF a <= b THEN a ELSE b

Max(a, b) == IF a >= b THEN a ELSE b

(* Python int(): truncation toward zero. *)
Trunc(n, d) == IF n >= 0 THEN n \div d ELSE -((-n) \div d)

RECURSIVE SqrtSearch(_, _, _)
SqrtSearch(n, lo, hi) ==
    IF lo >= hi THEN lo
    ELSE LET mid == (lo + hi + 1) \div 2
         IN  IF mid * mid <= n THEN SqrtSearch(n, mid, hi)
                               ELSE SqrtSearch(n, lo, mid - 1)

(* floor(sqrt(n)) *)
ISqrt(n) == SqrtSearch(n, 0, Min(n, 46340))

RECURSIVE Pow2(_)
Pow2(j) == IF j <= 0 THEN 1 ELSE 2 * Pow2(j - 1)

RECURSIVE CeilLog2From(_, _)
CeilLog2From(n, j) == IF Pow2(j) >= n THEN j ELSE CeilLog2From(n, j + 1)

CeilLog2(n) == CeilLog2From(n, 0)

(* ------------------------------ np.cos / np.sin ----------------------- *)

(* cos(i * 360/128 degrees) in millionths, i = 0..32 (first quadrant). *)
CosQ ==
    << 1000000, 998795, 995185, 989177, 980785, 970031, 956940, 941544,
       923880, 903989, 881921, 857729, 831470, 803208, 773010, 740951,
       707107, 671559, 634393, 595699, 555570, 514103, 471397, 427555,
       382683, 336890, 290285, 242980, 195090, 146730, 98017, 49068, 0 >>

Quarter == Len(CosQ) - 1

Turn == 4 * Quarter

(* A direction is an index 0..Turn-1: the angle index * 360/Turn degrees,
   as the float np.radians gives for it.                                 *)
Deg45 == Turn \div 8

WrapAngle(a) == a % Turn

(* A heading as the float it is: dir directions plus eps * 1e-19 rad, eps
   differing from 0 only at the direction 0, where float64 has numbers
   that small.                                                           *)
Heading(d) == [dir |-> d, eps |-> 0]

(* The heading -1e-19 rad. *)
TinyNegative == [dir |-> 0, eps |-> -1]

(* Half the spacing of the float64 numbers just below 2 pi, 2^-51, in
   units of 1e-19.                                                       *)
HalfUlpTurn == 4441

(* theta + np.radians(bearing), the bearing d directions: a bearing other
   than 0 absorbs the eps of theta.                                      *)
AngleSum(theta, d) ==
    [dir |-> theta.dir + d, eps |-> IF d = 0 THEN theta.eps ELSE 0]

(* a % (2 * np.pi) on float64: the remainder of fmod, to which 2 pi is
   added when it is negative; the sum is rounded, so that a negative
   remainder below half the spacing at 2 pi gives 2 pi itself (Turn).    *)
FloatMod(a) ==
    IF a.dir = 0 /\ a.eps < 0 /\ -a.eps < HalfUlpTurn THEN Turn
    ELSE a.dir % Turn

CosMicro(a) ==
    LET w == WrapAngle(a)
    IN  IF w <= Quarter THEN CosQ[w + 1]
        ELSE IF w <= 2 * Quarter THEN -CosQ[2 * Quarter - w + 1]
        ELSE IF w <= 3 * Quarter THEN -CosQ[w - 2 * Quarter + 1]
        ELSE CosQ[Turn - w + 1]

SinMicro(a) == CosMicro(a - Quarter)

(* What float64 returns where the exact value is 0, in units of 1e-19:
   cos(pi/2) = 6.123e-17, cos(3pi/2) = -1.837e-16, sin(pi) = 1.225e-16,
   sin(0) = 0, and sin(2pi) = -2.449e-16 for the float 2 pi (Turn).      *)
CosResidue(a) ==
    LET w == WrapAngle(a)
    IN  IF w = Quarter THEN 612 ELSE IF w = 3 * Quarter THEN -1837 ELSE 0

SinResidue(a) ==
    LET w == WrapAngle(a)
    IN  IF a = Turn THEN -2449 ELSE IF w = 2 * Quarter THEN 1225 ELSE 0

(* Half the spacing of the float64 numbers just below 1, 2^-54, in units
   of 1e-19.                                                             *)
HalfUlpOne == 555

(* x + max_range * c for an integer x and a residue c: the sum differs
   from x when the product exceeds half the spacing of the floats next to
   x on the side of zero.                                                *)
Registers(x, max_range, residue) ==
    /\ x /= 0
    /\ Abs(max_range) * Abs(residue) > HalfUlpOne * Pow2(CeilLog2(Abs(x)))

(* int(p + max_range * c): p in thousandths, c = cMicro millionths, or the
   residue where cMicro = 0.                                             *)
EndCell(p, max_range, cMicro, residue) ==
    LET exact == Trunc(p * Milli + max_range * cMicro, Micro)
        x     == p \div Milli
        push  == Sign(max_range) * Sign(residue)
    IN  IF cMicro = 0 /\ p % Milli = 0 /\ push /= 0
           /\ Sign(x) = -push /\ Registers(x, max_range, residue)
        THEN x + push
        ELSE exact

(* p + max_range * c in thousandths (the float itself, to 1/1000). *)
EndPoint(p, max_range, cMicro) == Trunc(p * Milli + max_range * cMicro, Milli)

(* ------------------------------ bresenham ----------------------------- *)

(* The bresenham package's generator: its constants for a line. *)
BresLine(x0, y0, x1, y1) ==
    LET dx0 == x1 - x0
        dy0 == y1 - y0
        xsign == IF dx0 > 0 THEN 1 ELSE -1
        ysign == IF dy0 > 0 THEN 1 ELSE -1
        adx == Abs(dx0)
        ady == Abs(dy0)
    IN  IF adx > ady
        THEN [x0 |-> x0, y0 |-> y0, dx |-> adx, dy |-> ady,
              xx |-> xsign, xy |-> 0, yx |-> 0, yy |-> ysign]
        ELSE [x0 |-> x0, y0 |-> y0, dx |-> ady, dy |-> adx,
              xx |-> 0, xy |-> ysign, yx |-> xsign, yy |-> 0]

(* The cell the generator yields at step x with minor offset y. *)
BresCell(ln, x, y) ==
    << ln.x0 + x * ln.xx + y * ln.yx, ln.y0 + x * ln.xy + y * ln.yy >>

(* The generator stepping its minor coordinate only on a positive error. *)
BresNextY_strict(ln, y, D) == IF D > 0 THEN y + 1 ELSE y

BresNextY(ln, y, D) == IF D >= 0 THEN y + 1 ELSE y

BresNextD(ln, D) == (IF D >= 0 THEN D - 2 * ln.dx ELSE D) + 2 * ln.dy

(* The generator's loop variables before the first yield, and after one
   more pass of its loop.                                                *)
BresStart(ln) == [x |-> 0, y |-> 0, D |-> 2 * ln.dy - ln.dx]

BresStep(ln, st) ==
    [x |-> st.x + 1, y |-> BresNextY(ln, st.y, st.D), D |-> BresNextD(ln, st.D)]

(* n passes of the loop from st; the loop ends once x is past dx (the
   count is halved only to keep the evaluation shallow).                 *)
RECURSIVE BresRun(_, _, _)
BresRun(ln, st, n) ==
    IF n <= 0 \/ st.x > ln.dx THEN st
    ELSE IF n = 1 THEN BresStep(ln, st)
    ELSE LET mid == BresRun(ln, st, n \div 2)
         IN  IF mid.x > ln.dx THEN mid
             ELSE BresRun(ln, mid, n - n \div 2)

(* The next n cells the generator yields from st, in order. *)
RECURSIVE BresSeq(_, _, _)
BresSeq(ln, st, n) ==
    IF n <= 0 \/ st.x > ln.dx THEN << >>
    ELSE IF n = 1 THEN << BresCell(ln, st.x, st.y) >>
    ELSE LET mid == BresRun(ln, st, n \div 2)
         IN  IF mid.x > ln.dx THEN BresSeq(ln, st, n \div 2)
             ELSE BresSeq(ln, st, n \div 2)
                  \o BresSeq(ln, mid, n - n \div 2)

(* list(bresenham(x0, y0, x1, y1)) *)
bresenham(x0, y0, x1, y1) ==
    LET ln == BresLine(x0, y0, x1, y1)
    IN  BresSeq(ln, BresStart(ln), ln.dx + 1)

(* ------------------------------ the grid ------------------------------ *)

Cells == (0 .. GridW - 1) \X (0 .. GridH - 1)

(* grid_map[c[1], c[0]]: a cell is <<column, row>>. *)
Grids ==
    { [c \in Cells |-> IF c \in occ THEN 1 ELSE 0] :
        occ \in { s \in SUBSET Cells : Cardinality(s) <= MaxOccupied } }

(* utils.inbounds(grid_map, x, y) *)
inbounds(grid_map, x, y) ==
    /\ x >= 0 /\ x < GridW
    /\ y >= 0 /\ y < GridH

(* ------------------------------ get_distance -------------------------- *)

(* np.linalg.norm(np.array([x, y]) - np.array([c[0], c[1]])) *)
Norm(x, y, c) ==
    ISqrt((x - c[1] * Milli) * (x - c[1] * Milli)
          + (y - c[2] * Milli) * (y - c[2] * Milli))

(* The loop without the return at a cell outside the grid: such a cell is
   passed over and the walk goes on to the end of the line.              *)
RECURSIVE WalkCells_past(_, _, _, _, _, _, _)
WalkCells_past(grid_map, ln, i, yy, D, miss, xy) ==
    IF i > ln.dx
    THEN [dist |-> miss.dist, loc |-> miss.loc, hit |-> FALSE,
          seen |-> i, reads |-> i]
    ELSE LET c == BresCell(ln, i, yy)
         IN  IF inbounds(grid_map, c[1], c[2]) /\ grid_map[c] = 1
             THEN [dist |-> Norm(xy[1], xy[2], c),
                   loc |-> << c[1] * Milli, c[2] * Milli >>, hit |-> TRUE,
                   seen |-> i + 1, reads |-> i + 1]
             ELSE WalkCells_past(grid_map, ln, i + 1, BresNextY(ln, yy, D),
                                 BresNextD(ln, D), miss, xy)

(* The loop reading the grid before it asks whether the cell is in
   bounds: the cell outside the grid that ends the walk has been read.    *)
RECURSIVE WalkCells_eager(_, _, _, _, _, _, _)
WalkCells_eager(grid_map, ln, i, yy, D, miss, xy) ==
    IF i > ln.dx
    THEN [dist |-> miss.dist, loc |-> miss.loc, hit |-> FALSE,
          seen |-> i, reads |-> i]
    ELSE LET c == BresCell(ln, i, yy)
         IN  IF ~inbounds(grid_map, c[1], c[2])
             THEN [dist |-> miss.dist, loc |-> miss.loc, hit |-> FALSE,
                   seen |-> i + 1, reads |-> i + 1]
             ELSE IF grid_map[c] = 1
             THEN [dist |-> Norm(xy[1], xy[2], c),
                   loc |-> << c[1] * Milli, c[2] * Milli >>, hit |-> TRUE,
                   seen |-> i + 1, reads |-> i + 1]
             ELSE WalkCells_eager(grid_map, ln, i + 1, BresNextY(ln, yy, D),
                                  BresNextD(ln, D), miss, xy)

(* The for loop over the generator: it stops at the first cell that is out
   of bounds or occupied.  seen counts the cells taken from the generator,
   reads the grid accesses.                                              *)
RECURSIVE WalkCells(_, _, _, _, _, _, _)
WalkCells(grid_map, ln, i, yy, D, miss, xy) ==
    IF i > ln.dx
    THEN [dist |-> miss.dist, loc |-> miss.loc, hit |-> FALSE,
          seen |-> i, reads |-> i]
    ELSE LET c == BresCell(ln, i, yy)
         IN  IF ~inbounds(grid_map, c[1], c[2])
             THEN [dist |-> miss.dist, loc |-> miss.loc, hit |-> FALSE,
                   seen |-> i + 1, reads |-> i]
             ELSE IF grid_map[c] = 1
             THEN [dist |-> Norm(xy[1], xy[2], c),
                   loc |-> << c[1] * Milli, c[2] * Milli >>, hit |-> TRUE,
                   seen |-> i + 1, reads |-> i + 1]
             ELSE WalkCells(grid_map, ln, i + 1, BresNextY(ln, yy, D),
                            BresNextD(ln, D), miss, xy)

StartCell(x, y) == << Trunc(x, Milli), Trunc(y, Milli) >>

LastCell(max_range, x, y, angle) ==
    << EndCell(x, max_range, CosMicro(angle), CosResidue(angle)),
       EndCell(y, max_range, SinMicro(angle), SinResidue(angle)) >>

(* Variants of the walk, to show which properties hang on its two
   stopping rules: with skipOut a cell outside the grid is passed over, with
   keepOn an occupied cell is noted and the walk goes on.                 *)
RECURSIVE WalkLoose(_, _, _, _, _, _, _, _, _)
WalkLoose(grid_map, ln, i, yy, D, miss, xy, skipOut, keepOn) ==
    IF i > ln.dx
    THEN [dist |-> miss.dist, loc |-> miss.loc, hit |-> miss.hit,
          seen |-> i, reads |-> i]
    ELSE LET c == BresCell(ln, i, yy)
             at == [dist |-> Norm(xy[1], xy[2], c),
                    loc |-> << c[1] * Milli, c[2] * Milli >>, hit |-> TRUE]
             on(m) == WalkLoose(grid_map, ln, i + 1, BresNextY(ln, yy, D),
                                BresNextD(ln, D), m, xy, skipOut, keepOn)
         IN  IF ~inbounds(grid_map, c[1], c[2])
             THEN IF skipOut THEN on(miss)
                  ELSE [dist |-> miss.dist, loc |-> miss.loc,
                        hit |-> miss.hit, seen |-> i + 1, reads |-> i]
             ELSE IF grid_map[c] = 1
             THEN IF keepOn THEN on(at)
                  ELSE [dist |-> at.dist, loc |-> at.loc, hit |-> TRUE,
                        seen |-> i + 1, reads |-> i + 1]
             ELSE on(miss)

LooseDistance(grid_map, max_range, x, y, angle, skipOut, keepOn) ==
    LET c0 == StartCell(x, y)
        c1 == LastCell(max_range, x, y, angle)
        ln == BresLine(c0[1], c0[2], c1[1], c1[2])
        miss == [dist |-> max_range * Milli,
                 loc |-> << EndPoint(x, max_range, CosMicro(angle)),
                            EndPoint(y, max_range, SinMicro(angle)) >>,
                 hit |-> FALSE]
    IN  WalkLoose(grid_map, ln, 0, 0, 2 * ln.dy - ln.dx, miss, << x, y >>,
                  skipOut, keepOn)

(* get_distance without the break at an occupied cell. *)
get_distance_last(grid_map, max_range, x, y, angle) ==
    LooseDistance(grid_map, max_range, x, y, angle, FALSE, TRUE)

(* get_distance without the break at a cell outside the grid. *)
get_distance_skip(grid_map, max_range, x, y, angle) ==
    LooseDistance(grid_map, max_range, x, y, angle, TRUE, FALSE)

(* get_distance giving the length walked when nothing is hit. *)
get_distance_reach(grid_map, max_range, x, y, angle) ==
    LET c1 == LastCell(max_range, x, y, angle)
        w == LooseDistance(grid_map, max_range, x, y, angle, FALSE, FALSE)
    IN  IF w.hit THEN w
        ELSE [w EXCEPT !.dist = Norm(x, y, c1)]

(* get_distance leaving the pose's own cell out of the walk. *)
get_distance_ahead(grid_map, max_range, x, y, angle) ==
    LET x2 == EndPoint(x, max_range, CosMicro(angle))
        y2 == EndPoint(y, max_range, SinMicro(angle))
        c0 == StartCell(x, y)
        c1 == LastCell(max_range, x, y, angle)
        ln == BresLine(c0[1], c0[2], c1[1], c1[2])
        D0 == 2 * ln.dy - ln.dx
        miss == [dist |-> max_range * Milli, loc |-> << x2, y2 >>]
    IN  WalkCells(grid_map, ln, 1, BresNextY(ln, 0, D0), BresNextD(ln, D0),
                  miss, << x, y >>)

(* get_distance measuring from the truncated pose. *)
get_distance_trunc(grid_map, max_range, x, y, angle) ==
    LET x2 == EndPoint(x, max_range, CosMicro(angle))
        y2 == EndPoint(y, max_range, SinMicro(angle))
        c0 == StartCell(x, y)
        c1 == LastCell(max_range, x, y, angle)
        ln == BresLine(c0[1], c0[2], c1[1], c1[2])
        miss == [dist |-> max_range * Milli, loc |-> << x2, y2 >>]
    IN  WalkCells(grid_map, ln, 0, 0, 2 * ln.dy - ln.dx, miss,
                  << c0[1] * Milli, c0[2] * Milli >>)

(* get_distance reporting, when nothing is hit, the cell the line ends
   in.                                                                    *)
get_distance_cell(grid_map, max_range, x, y, angle) ==
    LET c0 == StartCell(x, y)
        c1 == LastCell(max_range, x, y, angle)
        ln == BresLine(c0[1], c0[2], c1[1], c1[2])
        miss == [dist |-> max_range * Milli,
                 loc |-> << c1[1] * Milli, c1[2] * Milli >>]
    IN  WalkCells(grid_map, ln, 0, 0, 2 * ln.dy - ln.dx, miss, << x, y >>)

get_distance(grid_map, max_range, x, y, angle) ==
    LET x2 == EndPoint(x, max_range, CosMicro(angle))
        y2 == EndPoint(y, max_range, SinMicro(angle))
        c0 == StartCell(x, y)
        c1 == LastCell(max_range, x, y, angle)
        ln == BresLine(c0[1], c0[2], c1[1], c1[2])
        miss == [dist |-> max_range * Milli, loc |-> << x2, y2 >>]
    IN  WalkCells(grid_map, ln, 0, 0, 2 * ln.dy - ln.dx, miss, << x, y >>)

(* ------------------------------ float64 values ------------------------ *)

(* A float is m * 10^e with m = 0 or 1000 <= |m| <= 9999; k tells a Python
   int ("int") from a float ("num") and from the floats nan and inf.      *)
Digits == 4

RECURSIVE Pow10(_)
Pow10(n) == IF n <= 0 THEN 1 ELSE 10 * Pow10(n - 1)

MantMin == Pow10(Digits - 1)

MantMax == Pow10(Digits) - 1

(* float64 rounds to 0.0 whatever is below half its least positive number,
   4.94e-324 / 2 = 2.470e-324 = MinMant * 10^MinExp.                      *)
MinExp == -327

MinMant == 2470

Zero == [k |-> "num", m |-> 0, e |-> 0]

NaN == [k |-> "nan", m |-> 0, e |-> 0]

Inf(s) == [k |-> "inf", m |-> s, e |-> 0]

IntOne == [k |-> "int", m |-> 1, e |-> 0]

Underflows(m, e) == e < MinExp \/ (e = MinExp /\ Abs(m) < MinMant)

(* m * 10^e rounded to Digits digits. *)
RECURSIVE FNorm(_, _)
FNorm(m, e) ==
    IF m = 0 THEN Zero
    ELSE IF Abs(m) > MantMax THEN FNorm(Trunc(m + 5 * Sign(m), 10), e + 1)
    ELSE IF Abs(m) < MantMin THEN FNorm(m * 10, e - 1)
    ELSE IF Underflows(m, e) THEN Zero
    ELSE [k |-> "num", m |-> m, e |-> e]

FInt(n) == FNorm(n, 0)

IsNum(a) == a.k \in {"num", "int"}

FMul(a, b) ==
    IF ~(IsNum(a) /\ IsNum(b)) THEN NaN
    ELSE FNorm(a.m * b.m, a.e + b.e)

FAdd(a, b) ==
    IF ~(IsNum(a) /\ IsNum(b)) THEN NaN
    ELSE IF a.m = 0 THEN FNorm(b.m, b.e)
    ELSE IF b.m = 0 THEN FNorm(a.m, a.e)
    ELSE IF a.e - b.e > Digits + 1 THEN FNorm(a.m, a.e)
    ELSE IF b.e - a.e > Digits + 1 THEN FNorm(b.m, b.e)
    ELSE IF a.e >= b.e THEN FNorm(a.m * Pow10(a.e - b.e) + b.m, b.e)
    ELSE FNorm(b.m * Pow10(b.e - a.e) + a.m, a.e)

(* numpy's true division of floats: x / 0.0 is nan for x = 0, inf else. *)
FDiv(a, b) ==
    IF ~(IsNum(a) /\ IsNum(b)) THEN NaN
    ELSE IF b.m = 0 THEN (IF a.m = 0 THEN NaN ELSE Inf(Sign(a.m)))
    ELSE FNorm(Trunc(a.m * Pow10(Digits + 1), b.m), a.e - b.e - (Digits + 1))

(* a < b for numbers *)
FLess(a, b) == FAdd(a, [b EXCEPT !.m = -b.m]).m < 0

FLeq(a, b) == ~FLess(b, a)

RECURSIVE FSumFrom(_, _)
FSumFrom(ws, i) ==
    IF i > Len(ws) THEN Zero ELSE FAdd(ws[i], FSumFrom(ws, i + 1))

(* np.sum *)
FSum(ws) == FSumFrom(ws, 1)

(* ------------------------------ stats.norm.pdf ------------------------ *)

(* exp(-2^(i-1)), i = 1..10 *)
ExpNegPow2 ==
    << [m |-> 3679, e |-> -4],   [m |-> 1353, e |-> -4],
       [m |-> 1832, e |-> -5],   [m |-> 3355, e |-> -7],
       [m |-> 1125, e |-> -10],  [m |-> 1266, e |-> -17],
       [m |-> 1604, e |-> -31],  [m |-> 2572, e |-> -59],
       [m |-> 6616, e |-> -115], [m |-> 4377, e |-> -226] >>

RECURSIVE ExpNegIntFrom(_, _)
ExpNegIntFrom(n, i) ==
    IF n = 0 \/ i > Len(ExpNegPow2) THEN FInt(1)
    ELSE LET rest == ExpNegIntFrom(n \div 2, i + 1)
         IN  IF n % 2 = 1
             THEN FMul([k |-> "num", m |-> ExpNegPow2[i].m,
                        e |-> ExpNegPow2[i].e], rest)
             ELSE rest

(* exp(-n) for an integer n >= 0; from n = 745 on float64 gives 0.0. *)
ExpNegInt(n) ==
    IF n >= Pow2(Len(ExpNegPow2)) THEN Zero ELSE ExpNegIntFrom(n, 1)

Unit == Pow10(Digits)

(* exp(-f / Unit) * Unit for 0 <= f < Unit: the series
   1 - f(1 - f/2(1 - f/3( ... ))) to ExpTerms terms.                      *)
ExpTerms == 10

RECURSIVE ExpSeries(_, _)
ExpSeries(f, n) ==
    IF n > ExpTerms THEN Unit
    ELSE Unit - (f * ExpSeries(f, n + 1)) \div (n * Unit)

ExpNegFrac(f) == FNorm(ExpSeries(f, 1), -Digits)

(* 1 / sqrt(2 pi) = 0.3989 *)
InvSqrt2Pi == [k |-> "num", m |-> 3989, e |-> -4]

(* The largest |z|, in thousandths, whose square is a machine integer;
   beyond it (46 cells) the density has long underflowed to 0.0.         *)
MaxZ == 46340

(* stats.norm.pdf(measured_dist, loc=expected_dist) with z their
   difference in thousandths: exp(-z^2 / 2) / sqrt(2 pi).                *)
NormPdf(z) ==
    IF Abs(z) > MaxZ THEN Zero
    ELSE LET t == (z * z) \div (2 * 100)
         IN  FMul(InvSqrt2Pi,
                  FMul(ExpNegInt(t \div Unit), ExpNegFrac(t % Unit)))

(* ------------------------------ outcomes ------------------------------ *)

Ok(v) == [err |-> "none", val |-> v]

Raise(e) == [err |-> e, val |-> << >>]

(* ------------------------------ LidarSensor --------------------------- *)

(* LidarSensor.__init__ *)
LidarSensor(max_range) == [made |-> TRUE, max_range |-> max_range]

(* The thresholds of measure, in thousandths of the draw p. *)
HitBelow == 950

RandomBelow == 980

(* np.random.randint(0, self._max_range + 1): an int in [0, max_range],
   ValueError when the interval is empty.                                *)
random_measure(max_range, draw) ==
    IF max_range + 1 <= 0 THEN Raise("ValueError") ELSE Ok(draw * Milli)

failure_measure(max_range) == Ok(max_range * Milli)

(* np.random.normal(expected_dist): expected_dist plus unit Gaussian
   noise; any real can come out.                                         *)
hit_measure(expected_dist, noise) == Ok(expected_dist + noise)

(* measure with the threshold values given to the upper branch. *)
measure_strict(max_range, expected_dist, p, noise, draw) ==
    IF p < HitBelow THEN hit_measure(expected_dist, noise)
    ELSE IF p < RandomBelow THEN random_measure(max_range, draw)
    ELSE failure_measure(max_range)

(* LidarSensor.measure, with the draws it consumes: p = np.random.rand()
   in thousandths, the Gaussian noise, the randint value.                *)
measure(max_range, expected_dist, p, noise, draw) ==
    IF p <= HitBelow THEN hit_measure(expected_dist, noise)
    ELSE IF p <= RandomBelow THEN random_measure(max_range, draw)
    ELSE failure_measure(max_range)

Weight95 == [k |-> "num", m |-> 9500, e |-> -4]

Weight03 == [k |-> "num", m |-> 3000, e |-> -5]

Weight02 == [k |-> "num", m |-> 2000, e |-> -5]

(* lookup_prob giving the failure term only to a reading that is not the
   expected distance.                                                     *)
lookup_prob_branch(max_range, expected_dist, measured_dist) ==
    LET norm_prob == FMul(Weight95, NormPdf(measured_dist - expected_dist))
    IN  IF max_range = 0 THEN Raise("ZeroDivisionError")
        ELSE LET random_prob ==
                     FMul(Weight03, FDiv(FInt(1), FInt(max_range)))
                 failure_prob ==
                     IF /\ measured_dist = max_range * Milli
                        /\ measured_dist /= expected_dist
                     THEN Weight02 ELSE Zero
             IN  Ok(FAdd(FAdd(norm_prob, random_prob), failure_prob))

(* lookup_prob without the term of the random regime. *)
lookup_prob_hit(max_range, expected_dist, measured_dist) ==
    LET norm_prob == FMul(Weight95, NormPdf(measured_dist - expected_dist))
    IN  IF max_range = 0 THEN Raise("ZeroDivisionError")
        ELSE LET failure_prob ==
                     IF measured_dist = max_range * Milli
                     THEN Weight02 ELSE Zero
             IN  Ok(FAdd(norm_prob, failure_prob))

(* lookup_prob with regime weights that follow the constructor argument:
   a long-range sensor counts more readings as spurious.                  *)
lookup_prob_ranged(max_range, expected_dist, measured_dist) ==
    LET hit == IF max_range > 10
               THEN [k |-> "num", m |-> 9000, e |-> -4] ELSE Weight95
        random == IF max_range > 10
                  THEN [k |-> "num", m |-> 8000, e |-> -5] ELSE Weight03
        norm_prob == FMul(hit, NormPdf(measured_dist - expected_dist))
    IN  IF max_range = 0 THEN Raise("ZeroDivisionError")
        ELSE LET random_prob == FMul(random, FDiv(FInt(1), FInt(max_range)))
                 failure_prob ==
                     IF measured_dist = max_range * Milli
                     THEN Weight02 ELSE Zero
             IN  Ok(FAdd(FAdd(norm_prob, random_prob), failure_prob))

(* LidarSensor.lookup_prob; 1 / 0 raises ZeroDivisionError. *)
lookup_prob(max_range, expected_dist, measured_dist) ==
    LET norm_prob == FMul(Weight95, NormPdf(measured_dist - expected_dist))
    IN  IF max_range = 0 THEN Raise("ZeroDivisionError")
        ELSE LET random_prob ==
                     FMul(Weight03, FDiv(FInt(1), FInt(max_range)))
                 failure_prob ==
                     IF measured_dist = max_range * Milli
                     THEN Weight02 ELSE Zero
             IN  Ok(FAdd(FAdd(norm_prob, random_prob), failure_prob))

(* ------------------------------ shoot_rays ---------------------------- *)

(* (theta + np.radians(bearing * (360 / k))) % (2 * np.pi) for the ray
   bearing = i (from 0); k divides Turn.                                 *)
RayAngle(theta, i, k) == FloatMod(AngleSum(theta, i * (Turn \div k)))

(* The get_distance results of the k rays, in bearing order. *)
RayCasts(grid_map, max_range, state, k) ==
    [i \in 1 .. k |->
        get_distance(grid_map, max_range, state[1], state[2],
                     RayAngle(state[3], i - 1, k))]

shoot_rays(grid_map, max_range, state, k) ==
    LET casts == RayCasts(grid_map, max_range, state, k)
    IN  [i \in 1 .. k |-> casts[i].dist]

(* ------------------------------ importance ---------------------------- *)

(* zip(expected_distances, measured_distances): pairs up to the shorter. *)
Zip(eds, mds) ==
    [i \in 1 .. Min(Len(eds), Len(mds)) |-> << eds[i], mds[i] >>]

(* One pass of the loop body, weight *= sensor.lookup_prob(ed, md), on
   the outcome so far; an error ends the loop.                           *)
Times(max_range, acc, pair) ==
    IF acc.err /= "none" THEN acc
    ELSE LET p == lookup_prob(max_range, pair[1], pair[2])
         IN  IF p.err /= "none" THEN p ELSE Ok(FMul(acc.val, p.val))

(* The loop over pairs[lo .. hi] in order, from the outcome acc (the
   range is halved only to keep the evaluation shallow).                 *)
RECURSIVE Product(_, _, _, _, _)
Product(max_range, pairs, lo, hi, acc) ==
    IF lo > hi THEN acc
    ELSE IF lo = hi THEN Times(max_range, acc, pairs[lo])
    ELSE LET mid == (lo + hi) \div 2
             left == Product(max_range, pairs, lo, mid, acc)
         IN  IF left.err /= "none" THEN left
             ELSE Product(max_range, pairs, mid + 1, hi, left)

(* importance leaving the first pair out of the product. *)
importance_tail(grid_map, max_range, state, measured_distances) ==
    LET expected_distances ==
            shoot_rays(grid_map, max_range, state, Len(measured_distances))
        pairs == Zip(expected_distances, measured_distances)
    IN  Product(max_range, pairs, 2, Len(pairs), Ok(IntOne))

importance(grid_map, max_range, state, measured_distances) ==
    LET expected_distances ==
            shoot_rays(grid_map, max_range, state, Len(measured_distances))
        pairs == Zip(expected_distances, measured_distances)
    IN  Product(max_range, pairs, 1, Len(pairs), Ok(IntOne))

(* ------------------------------ sensor_fusion ------------------------- *)

RawWeights(grid_map, max_range, samples, measured_distances) ==
    [i \in 1 .. Len(samples) |->
        importance(grid_map, max_range, samples[i], measured_distances)]

(* weights /= np.sum(weights): in place on np.array(weights), which is an
   int64 array when every weight is the int 1 and then refuses the float
   result (TypeError).                                                   *)
Normalize(weights) ==
    IF Len(weights) > 0 /\ \A i \in 1 .. Len(weights) : weights[i].k = "int"
    THEN Raise("TypeError")
    ELSE LET total == FSum(weights)
         IN  Ok([i \in 1 .. Len(weights) |-> FDiv(weights[i], total)])

sensor_fusion(grid_map, max_range, samples, measured_distances) ==
    LET raw == RawWeights(grid_map, max_range, samples, measured_distances)
        bad == { i \in 1 .. Len(raw) : raw[i].err /= "none" }
    IN  IF bad /= {}
        THEN raw[CHOOSE i \in bad : \A j \in bad : i <= j]
        ELSE Normalize([i \in 1 .. Len(raw) |-> raw[i].val])

(* ------------------------------ sense --------------------------------- *)

(* draws[i] = [p, noise, draw]: what measure consumes for ray i. *)
sense(grid_map, max_range, ground_truth_state, rays, draws) ==
    LET dists == shoot_rays(grid_map, max_range, ground_truth_state, rays)
        ms == [i \in 1 .. Len(dists) |->
                  measure(max_range, dists[i], draws[i].p, draws[i].noise,
                          draws[i].draw)]
        bad == { i \in 1 .. Len(ms) : ms[i].err /= "none" }
    IN  IF bad /= {}
        THEN ms[CHOOSE i \in bad : \A j \in bad : i <= j]
        ELSE Ok([i \in 1 .. Len(ms) |-> ms[i].val])

(* ------------------------------ inputs -------------------------------- *)

(* max_sensor_range = 100 in the notebook *)
max_sensor_range == 100

MaxRange == 2

Ranges == (-1 .. MaxRange) \cup {max_sensor_range}

Half == Milli \div 2

(* Poses handed to get_distance: every cell's coordinates, and poses
   between cell coordinates and outside the grid on each side.           *)
OnCellPoses ==
    { << c[1] * Milli, c[2] * Milli >> : c \in Cells }

OffCellPoses ==
    { << -Milli, Milli >>, << -Half, 0 >>, << Milli + Half, Half >>,
      << Half, (GridH - 1) * Milli + Half >>,
      << GridW * Milli, Milli >>, << Milli, GridH * Milli >> }

Poses == OnCellPoses \cup OffCellPoses

(* Angles handed to get_distance: the multiples of 45 degrees. *)
Angles == { i * Deg45 : i \in 0 .. 7 }

(* Candidate states of a scoring round and the ground truth of sense;
   headings below 0 and beyond a full turn are among them.               *)
Candidates ==
    { << Milli, Milli, Heading(Deg45) >>,
      << 0, (GridH - 1) * Milli, Heading(-Deg45) >>,
      << -Milli, Half, Heading(0) >> }

GroundTruths ==
    { << Milli, Milli, Heading(Deg45) >>, << Half, 0, Heading(9 * Deg45) >> }

(* A pose on a cell corner whose heading is just below 0. *)
TinyPoses == { << 0, Milli, TinyNegative >> }

MaxSamples == 2

SeqsUpTo(S, n) == UNION { [1 .. k -> S] : k \in 0 .. n }

SampleLists == SeqsUpTo(Candidates, MaxSamples)

(* samples = np.array([...]): the notebook's fixed list of five candidates,
   all inside the grid.  The first four have the heading of the ground
   truth, the last has the position of the first and the opposite
   heading.  The positions are the notebook's, brought to the size of the
   grid: near the middle, right and high, right and low, left and low.   *)
samples_array ==
    << << Milli, Milli, Heading(Deg45) >>,
       << (GridW - 1) * Milli, Half, Heading(Deg45) >>,
       << Milli + Half, (GridH - 1) * Milli, Heading(Deg45) >>,
       << Half, (GridH - 1) * Milli, Heading(Deg45) >>,
       << Milli, Milli, Heading(-Deg45) >> >>

(* Ray counts: they divide Turn. *)
RayCounts == {1, 2, 4, 8}

VectorLengths == {0, 1, 2}

(* Readings a measurement vector is made of. *)
Readings(max_range) == {0, Milli + Half, max_range * Milli}

Vectors(max_range) ==
    UNION { [1 .. k -> Readings(max_range)] : k \in VectorLengths }

(* A reading for each ray of a full fan of Turn rays. *)
FanVectors(max_range) ==
    { [i \in 1 .. Turn |-> r] : r \in {Milli + Half, max_range * Milli} }

(* Expected distances handed to measure and lookup_prob. *)
Expecteds(max_range) == {0, Milli, 1414, max_range * Milli}

(* The draws of one measure call: p = np.random.rand() in thousandths,
   the Gaussian noise of a hit, the value of randint.                    *)
MaxNoise == 1

Noises == { n * Milli : n \in -MaxNoise .. MaxNoise }

PDraws == {0, HitBelow, HitBelow + 1, RandomBelow, RandomBelow + 1, 999}

RandomDraws(max_range) ==
    IF max_range < 0 THEN {0} ELSE {0, max_range}

SenseDraws(max_range) ==
    { [p |-> 0, noise |-> n, draw |-> 0] :
        n \in {-MaxNoise * Milli, MaxNoise * Milli} }
    \cup { [p |-> RandomBelow, noise |-> 0, draw |-> 0],
           [p |-> 999, noise |-> 0, draw |-> 0] }

SenseRays == {1, 2}

(* ------------------------------ the notebook -------------------------- *)

NoSensor == [made |-> FALSE, max_range |-> 0]

NoCall == [op |-> "none"]

NoRet == [err |-> "none", val |-> << >>]

(* The result the notebook binds to its variable weights (weights =
   sensor_fusion(...)), held with the call that made it.  NoBinding: the
   variable is not bound.                                                 *)
NoBinding == [call |-> NoCall, ret |-> NoRet]

NoMemo == [weights |-> NoBinding]

(* The assignment replaces what the variable held. *)
Bound(c, r) == [call |-> c, ret |-> r]

(* No candidate being evaluated. *)
NoTasks == [of |-> << >>, mixed |-> FALSE]

(* The random-sampling notebook not run. *)
NoSampling ==
    /\ polygons = << >>
    /\ sample_list = << >>
    /\ to_keep = << >>
    /\ point_i = 0

Init ==
    /\ grid \in Grids
    /\ sensor = NoSensor
    /\ pc = "ready"
    /\ call = NoCall
    /\ ret = NoRet
    /\ measured = << >>
    /\ memo = NoMemo
    /\ tasks = NoTasks
    /\ NoSampling

(* sensor = LidarSensor(max_range) *)
NewSensor(max_range) ==
    /\ pc = "ready"
    /\ ~sensor.made
    /\ sensor' = LidarSensor(max_range)
    /\ UNCHANGED <<grid, pc, call, ret, measured, memo, aside>>

Ready == pc = "ready" /\ sensor.made

(* A call made where its value is not bound to a notebook variable: in
   an expression, or in a function that binds it to a local.             *)
Return(c, r) ==
    /\ call' = c
    /\ ret' = r
    /\ pc' = "done"
    /\ UNCHANGED <<grid, sensor, measured, memo, aside>>

(* The sensor is made and no call is running; measured_distances may be
   bound.                                                                 *)
Callable == sensor.made /\ pc \in {"ready", "sensed"}

GetDistance(x, y, angle) ==
    /\ Ready
    /\ Return([op |-> "get_distance", x |-> x, y |-> y, angle |-> angle],
              Ok(get_distance(grid, sensor.max_range, x, y, angle)))

ShootRays(state, k) ==
    /\ Callable
    /\ Return([op |-> "shoot_rays", state |-> state, k |-> k],
              Ok(shoot_rays(grid, sensor.max_range, state, k)))

Measure(expected_dist, p, noise, draw) ==
    /\ Ready
    /\ Return([op |-> "measure", expected_dist |-> expected_dist, p |-> p,
               noise |-> noise, draw |-> draw],
              measure(sensor.max_range, expected_dist, p, noise, draw))

LookupProb(expected_dist, measured_dist) ==
    /\ Ready
    /\ Return([op |-> "lookup_prob", expected_dist |-> expected_dist,
               measured_dist |-> measured_dist],
              lookup_prob(sensor.max_range, expected_dist, measured_dist))

Importance(state, measured_distances) ==
    /\ Ready
    /\ Return([op |-> "importance", state |-> state,
               measured_distances |-> measured_distances],
              importance(grid, sensor.max_range, state, measured_distances))

(* measured_distances = sense(grid, sensor, ground_truth_state, rays) *)
Sense(ground_truth_state, rays, draws) ==
    /\ Ready
    /\ LET r == sense(grid, sensor.max_range, ground_truth_state, rays, draws)
       IN  /\ call' = [op |-> "sense", state |-> ground_truth_state,
                       rays |-> rays, draws |-> draws]
           /\ ret' = r
           /\ pc' = IF r.err = "none" THEN "sensed" ELSE "done"
           /\ measured' = IF r.err = "none" THEN r.val ELSE measured
    /\ UNCHANGED <<grid, sensor, memo, aside>>

(* weights = sensor_fusion(...) normalizing in place on the vector it was
   handed.                                                                *)
FuseMeasuredInPlace(samples) ==
    /\ Callable
    /\ measured /= << >>
    /\ \E r \in { sensor_fusion(grid, sensor.max_range, samples, measured) } :
       LET c == [op |-> "sensor_fusion", samples |-> samples,
                 measured_distances |-> measured]
       IN  /\ call' = c
           /\ ret' = r
           /\ measured' = IF r.err = "none" THEN r.val ELSE measured
           /\ memo' = IF r.err = "none"
                      THEN [memo EXCEPT !.weights = Bound(c, r)]
                      ELSE memo
    /\ pc' = "done"
    /\ UNCHANGED <<grid, sensor, aside>>

(* sensor_fusion(grid, sensor, samples, measured_distances) called on the
   vector sense returned or on a vector given by the caller, its value
   not bound.                                                             *)
SensorFusion(samples, measured_distances) ==
    /\ sensor.made
    /\ \/ pc = "ready"
       \/ pc = "sensed" /\ measured_distances = measured
    /\ Return([op |-> "sensor_fusion", samples |-> samples,
               measured_distances |-> measured_distances],
              sensor_fusion(grid, sensor.max_range, samples,
                            measured_distances))

(* weights = sensor_fusion(grid, sensor, samples, measured_distances): the
   statement of the notebook, on the measured_distances bound by the sense
   statement, in its cell or in a later one.  A call that raises binds
   nothing.                                                               *)
FuseMeasured(samples) ==
    /\ Callable
    /\ measured /= << >>
    /\ \E r \in { sensor_fusion(grid, sensor.max_range, samples, measured) } :
       LET c == [op |-> "sensor_fusion", samples |-> samples,
                 measured_distances |-> measured]
       IN  /\ call' = c
           /\ ret' = r
           /\ memo' = IF r.err = "none"
                      THEN [memo EXCEPT !.weights = Bound(c, r)]
                      ELSE memo
    /\ pc' = "done"
    /\ UNCHANGED <<grid, sensor, measured, aside>>

(* The next cell: the call on record ends; grid, sensor and what the
   statements bound (measured_distances, weights) stay.        *)
NextCell ==
    /\ pc \in {"done", "sensed"}
    /\ pc' = "ready"
    /\ call' = NoCall
    /\ ret' = NoRet
    /\ tasks' = NoTasks
    /\ UNCHANGED <<grid, sensor, measured, memo, sampling>>

DoNewSensor == \E r \in Ranges : NewSensor(r)

DoGetDistance == \E xy \in Poses, a \in Angles : GetDistance(xy[1], xy[2], a)

DoShootRays ==
    \E s \in Candidates \cup GroundTruths \cup TinyPoses, k \in RayCounts :
        ShootRays(s, k)

DoMeasure ==
    \E e \in Expecteds(sensor.max_range), p \in PDraws, n \in Noises,
       d \in RandomDraws(sensor.max_range) : Measure(e, p, n, d)

DoLookupProb ==
    \E e \in Expecteds(sensor.max_range),
       m \in Readings(sensor.max_range) \cup Expecteds(sensor.max_range) :
       LookupProb(e, m)

DoImportance ==
    \E s \in Candidates, v \in Vectors(sensor.max_range) : Importance(s, v)

DoSense ==
    \E g \in GroundTruths, k \in SenseRays :
       \E ds \in [1 .. k -> SenseDraws(sensor.max_range)] : Sense(g, k, ds)

DoSensorFusion ==
    \E ss \in SampleLists, v \in Vectors(sensor.max_range) \cup {measured} :
       SensorFusion(ss, v)

DoFanFusion ==
    \E ss \in SampleLists, v \in FanVectors(sensor.max_range) :
       SensorFusion(ss, v)

(* The whole notebook. *)
Next ==
    \/ DoNewSensor
    \/ DoGetDistance
    \/ DoShootRays
    \/ DoMeasure
    \/ DoLookupProb
    \/ DoImportance
    \/ DoSense
    \/ DoSensorFusion
    \/ NextCell

Spec == Init /\ [][Next]_vars

(* Ray casting on every grid. *)
NextRay ==
    \/ DoNewSensor
    \/ DoGetDistance
    \/ DoShootRays
    \/ NextCell

SpecRay == Init /\ [][NextRay]_vars

(* Grids with at most one occupied cell. *)
InitSparse ==
    /\ Init
    /\ Cardinality({ c \in Cells : grid[c] = 1 }) <= 1

(* The sensor model, with the rays it is fed from. *)
NextSensor ==
    \/ DoNewSensor
    \/ DoGetDistance
    \/ DoMeasure
    \/ DoLookupProb
    \/ DoSense
    \/ NextCell

SpecSensor == InitSparse /\ [][NextSensor]_vars

(* Scoring rounds on vectors given by the caller. *)
NextRound ==
    \/ DoNewSensor
    \/ DoImportance
    \/ DoSensorFusion
    \/ NextCell

SpecRound == InitSparse /\ [][NextRound]_vars

(* Scoring rounds on a full fan of Turn rays. *)
NextFan ==
    \/ DoNewSensor
    \/ DoFanFusion
    \/ NextCell

SpecFan == InitSparse /\ [][NextFan]_vars

(* ------------------------------ the line of a call ------------------- *)

IsCall(op) == pc = "done" /\ call.op = op

(* The line bresenham enumerates for the get_distance call on record, the
   number of a line's cells and its j-th cell (from 1).                  *)
CallLine ==
    LET c0 == StartCell(call.x, call.y)
        c1 == LastCell(sensor.max_range, call.x, call.y, call.angle)
    IN  BresLine(c0[1], c0[2], c1[1], c1[2])

(* list(bresenham(...)) for the call on record. *)
CallCells ==
    LET c0 == StartCell(call.x, call.y)
        c1 == LastCell(sensor.max_range, call.x, call.y, call.angle)
    IN  bresenham(c0[1], c0[2], c1[1], c1[2])

LineLen(ln) == ln.dx + 1

LineCell(ln, j) ==
    LET st == BresRun(ln, BresStart(ln), j - 1)
    IN  BresCell(ln, st.x, st.y)

Occupied(c) == inbounds(grid, c[1], c[2]) /\ grid[c] = 1

Free(c) == inbounds(grid, c[1], c[2]) /\ grid[c] = 0

CellLoc(c) == << c[1] * Milli, c[2] * Milli >>

(* The position of the first cell of the line at which the walk must stop,
   one that is outside the grid or occupied; 0 when the line has none.    *)
RECURSIVE FirstStopFrom(_, _)
FirstStopFrom(ln, j) ==
    IF j > LineLen(ln) THEN 0
    ELSE IF ~Free(LineCell(ln, j)) THEN j
    ELSE FirstStopFrom(ln, j + 1)

FirstStop(ln) == FirstStopFrom(ln, 1)

(* ------------------------------ ray casting --------------------------- *)

(* C2: the hit get_distance reports is the first occupied cell of the line
   enumeration, every cell enumerated before it is in bounds and free, and
   when the enumeration leaves the grid or ends before an occupied cell the
   distance is max_range.                                                 *)
C2_HitIsFirstOccupied ==
    IsCall("get_distance") =>
        LET ln == CallLine
            s == FirstStop(ln)
        IN  IF s > 0 /\ Occupied(LineCell(ln, s))
            THEN /\ ret.val.hit
                 /\ ret.val.loc = CellLoc(LineCell(ln, s))
                 /\ ret.val.dist = Norm(call.x, call.y, LineCell(ln, s))
                 /\ \A i \in 1 .. s - 1 : Free(LineCell(ln, i))
            ELSE /\ ~ret.val.hit
                 /\ ret.val.dist = sensor.max_range * Milli

(* A hit behind a free cell, with a second occupied cell further along. *)
C2_Witness ==
    /\ IsCall("get_distance")
    /\ ret.val.hit
    /\ LET cells == CallCells
           s == FirstStop(CallLine)
       IN  /\ s >= 2
           /\ ret.val.loc = CellLoc(cells[s])
           /\ \E j \in s + 1 .. Len(cells) : Occupied(cells[j])

(* C3: with max_range > 0, every distance get_distance returns and every
   entry of the vector shoot_rays returns lies in [0, max_range].         *)
C3_DistanceInRange ==
    /\ (IsCall("get_distance") /\ sensor.max_range > 0) =>
           /\ 0 <= ret.val.dist
           /\ ret.val.dist <= sensor.max_range * Milli
    /\ (IsCall("shoot_rays") /\ sensor.max_range > 0) =>
           \A i \in 1 .. Len(ret.val) :
               0 <= ret.val[i] /\ ret.val[i] <= sensor.max_range * Milli

(* C8: a ray whose enumeration reaches a cell outside the grid before any
   occupied cell stops there and reports max_range without an error; so does
   a ray cast from a pose whose own cell is outside the grid.             *)
C8_OutOfBoundsIsMaxRange ==
    IsCall("get_distance") =>
        LET ln == CallLine
            s == FirstStop(ln)
        IN  (s > 0 /\ ~inbounds(grid, LineCell(ln, s)[1],
                                LineCell(ln, s)[2])) =>
                /\ ret.err = "none"
                /\ ~ret.val.hit
                /\ ret.val.dist = sensor.max_range * Milli
                /\ ret.val.seen = s

(* A ray cast from outside the grid towards an occupied cell. *)
C8_Witness ==
    /\ IsCall("get_distance")
    /\ sensor.max_range > 0
    /\ LET cells == CallCells
       IN  /\ ~inbounds(grid, cells[1][1], cells[1][2])
           /\ \E j \in 2 .. Len(cells) : Occupied(cells[j])
    /\ ret.err = "none"
    /\ ret.val.dist = sensor.max_range * Milli

(* C9: on a grid without occupied cells get_distance returns exactly
   max_range, whatever the pose and the angle.                            *)
C9_EmptyGridIsMaxRange ==
    (IsCall("get_distance") /\ \A c \in Cells : grid[c] = 0) =>
        /\ ret.err = "none"
        /\ ~ret.val.hit
        /\ ret.val.dist = sensor.max_range * Milli

(* A ray on the empty grid that ends inside the grid. *)
C9_Witness ==
    /\ IsCall("get_distance")
    /\ \A c \in Cells : grid[c] = 0
    /\ sensor.max_range > 0
    /\ ret.val.seen = Len(CallCells)
    /\ ret.val.seen >= 2
    /\ ret.val.dist = sensor.max_range * Milli

(* The unit step of a ray at a multiple of 45 degrees. *)
Dir(angle) == << Sign(CosMicro(angle)), Sign(SinMicro(angle)) >>

StepLen(angle) ==
    LET d == Dir(angle)
    IN  ISqrt((d[1] * d[1] + d[2] * d[2]) * Milli * Milli)

Diagonal == ISqrt(2 * Milli * Milli)

(* The cells of the grid on the ray from (x, y) at the angle, as pairs of
   the step number and the cell.                                          *)
OnPath(x, y, angle) ==
    { jc \in (0 .. GridW + GridH) \X Cells :
        /\ jc[2][1] * Milli = x + jc[1] * Dir(angle)[1] * Milli
        /\ jc[2][2] * Milli = y + jc[1] * Dir(angle)[2] * Milli }

(* C10: with a single occupied cell, lying on the path of a ray cast from a
   cell of the grid at a true distance d < max_range, get_distance reports
   that cell and a distance within one cell diagonal of d.                *)
C10_SingleCellIsHit ==
    (/\ IsCall("get_distance")
     /\ sensor.max_range > 0
     /\ call.x % Milli = 0 /\ call.y % Milli = 0
     /\ inbounds(grid, call.x \div Milli, call.y \div Milli)
     /\ WrapAngle(call.angle) % Deg45 = 0
     /\ Cardinality({ c \in Cells : grid[c] = 1 }) = 1) =>
        \A jc \in OnPath(call.x, call.y, call.angle) :
            (grid[jc[2]] = 1
             /\ jc[1] * StepLen(call.angle) < sensor.max_range * Milli) =>
                /\ ret.val.hit
                /\ ret.val.loc = CellLoc(jc[2])
                /\ Abs(ret.val.dist - jc[1] * StepLen(call.angle)) <= Diagonal

(* ------------------------------ the sensor model ---------------------- *)

InRange(v) == 0 <= v /\ v <= sensor.max_range * Milli

(* C4: with max_range > 0, every reading measure returns and every element
   of the vector sense returns lies in [0, max_range], whichever branch
   produced it.                                                           *)
C4_ReadingInRange ==
    /\ (IsCall("measure") /\ sensor.max_range > 0 /\ ret.err = "none") =>
           InRange(ret.val)
    /\ (pc = "sensed" /\ sensor.max_range > 0) =>
           \A i \in 1 .. Len(measured) : InRange(measured[i])

(* The calls that sample, evaluate a likelihood or cast a ray. *)
SensorCalls == {"measure", "sense", "lookup_prob", "get_distance"}

(* C5: a sensor with max_range <= 0 is rejected with an error before any
   sampling, likelihood evaluation or ray casting: no such call on it
   returns a value.                                                       *)
C5_NonPositiveRangeRejected ==
    (/\ pc \in {"done", "sensed"}
     /\ call.op \in SensorCalls
     /\ sensor.max_range <= 0) =>
        ret.err /= "none"

(* ------------------------------ sensor_fusion ------------------------- *)

OneLow == [k |-> "num", m |-> 9950, e |-> -4]

OneHigh == [k |-> "num", m |-> 1005, e |-> -3]

(* The weights are numbers >= 0 whose sum is 1, to the precision of the
   arithmetic.                                                            *)
IsDistribution(ws) ==
    /\ \A i \in 1 .. Len(ws) : IsNum(ws[i]) /\ ws[i].m >= 0
    /\ FLeq(OneLow, FSum(ws))
    /\ FLeq(FSum(ws), OneHigh)

(* C1: with max_range > 0 and n >= 1 candidate states, sensor_fusion
   returns exactly n weights, each >= 0, that sum to 1.                   *)
C1_FusionIsDistribution ==
    (/\ IsCall("sensor_fusion")
     /\ sensor.max_range > 0
     /\ Len(call.samples) >= 1) =>
        /\ ret.err = "none"
        /\ Len(ret.val) = Len(call.samples)
        /\ IsDistribution(ret.val)

(* Every candidate's raw importance weight is exactly 0. *)
AllZero(raw) ==
    /\ Len(raw) >= 1
    /\ \A i \in 1 .. Len(raw) :
           raw[i].err = "none" /\ IsNum(raw[i].val) /\ raw[i].val.m = 0

Uniform(ws) ==
    \A i \in 1 .. Len(ws) : ws[i] = FDiv(FInt(1), FInt(Len(ws)))

(* C6: when every candidate's raw importance weight is exactly 0,
   sensor_fusion either raises an error or returns the uniform weights;
   it never returns NaN.                                                  *)
C6_ZeroWeightsHandled ==
    (/\ IsCall("sensor_fusion")
     /\ AllZero(RawWeights(grid, sensor.max_range, call.samples,
                           call.measured_distances))) =>
        \/ ret.err /= "none"
        \/ /\ Len(ret.val) = Len(call.samples)
           /\ Uniform(ret.val)

(* ------------------------------ calls on the ground truth ------------ *)

(* get_distance from the ground truth at each angle, as shoot_rays calls
   it for sense.                                                          *)
DoTruthDistance ==
    \E g \in GroundTruths, a \in Angles : GetDistance(g[1], g[2], a)

(* shoot_rays on the ground truth, as sense calls it. *)
DoTruthRays ==
    \E g \in GroundTruths, k \in SenseRays : ShootRays(g, k)

(* ------------------------------ rounds on the notebook's candidates -- *)

(* sensor_fusion(grid, sensor, samples, measured_distances) on the
   notebook's list of candidates and a vector given by the caller.        *)
PairVectors(max_range) == [1 .. 2 -> {Milli + Half, max_range * Milli}]

DoArrayFusion ==
    \E v \in PairVectors(sensor.max_range) : SensorFusion(samples_array, v)

(* sense on one ray, with each draw measure can make. *)
DoSenseOne ==
    \E g \in GroundTruths, d \in SenseDraws(sensor.max_range) :
        Sense(g, 1, << d >>)

(* weights = sensor_fusion(grid, sensor, samples, measured_distances) on
   the notebook's list of candidates.                                     *)
DoMeasuredFusion == FuseMeasured(samples_array)

(* ------------------------------ the branches of measure --------------- *)

(* The three intervals of the draw p, each threshold closing the interval
   below it.                                                              *)
HitDraw(p) == p <= HitBelow

RandomDraw(p) == HitBelow < p /\ p <= RandomBelow

FailureDraw(p) == RandomBelow < p

BranchesOf(p) ==
    { b \in {"hit", "random", "failure"} :
        \/ b = "hit" /\ HitDraw(p)
        \/ b = "random" /\ RandomDraw(p)
        \/ b = "failure" /\ FailureDraw(p) }

(* C13: measure selects its branch from the one draw p, compared with 0.95
   and then 0.98: every p falls in exactly one branch; p up to and
   including 0.95 gives the hit reading, p above 0.95 up to and including
   0.98 the random reading, p above 0.98 the failure reading.            *)
C13_BranchByThresholds ==
    IsCall("measure") =>
        /\ Cardinality(BranchesOf(call.p)) = 1
        /\ HitDraw(call.p) =>
               ret = Ok(call.expected_dist + call.noise)
        /\ RandomDraw(call.p) =>
               ret = random_measure(sensor.max_range, call.draw)
        /\ FailureDraw(call.p) =>
               ret = Ok(sensor.max_range * Milli)

(* A draw equal to the first threshold returned the hit reading, a reading
   neither of the other branches gives.                                   *)
C13_Witness ==
    /\ IsCall("measure")
    /\ call.p = HitBelow
    /\ sensor.max_range > 0
    /\ ret = Ok(call.expected_dist + call.noise)
    /\ ret /= random_measure(sensor.max_range, call.draw)
    /\ ret /= Ok(sensor.max_range * Milli)

(* ------------------------------ the likelihood ------------------------ *)

(* 0.95 * N(measured; expected, 1) + 0.03 * (1 / max_range) *)
HitAndRandom(max_range, expected_dist, measured_dist) ==
    FAdd(FMul(Weight95, NormPdf(measured_dist - expected_dist)),
         FMul(Weight03, FDiv(FInt(1), FInt(max_range))))

(* The reading is one the hit branch of measure gives for the expected
   distance.                                                              *)
HitReading(expected_dist, measured_dist) ==
    \E n \in Noises : hit_measure(expected_dist, n) = Ok(measured_dist)

(* C14: the value lookup_prob returns is 0.95 * N(measured; expected, 1) +
   0.03 * (1 / max_range) + failure_term, where failure_term is 0.02
   exactly when measured == max_range and 0 otherwise, whichever branch of
   measure the reading came from.                                         *)
C14_LikelihoodMixture ==
    (IsCall("lookup_prob") /\ ret.err = "none") =>
        LET base == HitAndRandom(sensor.max_range, call.expected_dist,
                                 call.measured_dist)
        IN  /\ call.measured_dist = sensor.max_range * Milli =>
                   /\ ret.val = FAdd(base, Weight02)
                   /\ ret.val /= base
            /\ call.measured_dist /= sensor.max_range * Milli =>
                   ret.val = base

(* The likelihood of a reading equal to max_range for the expected
   distance max_range, a reading the hit branch and the failure branch
   both give, carries the failure term.                                   *)
C14_Witness ==
    /\ IsCall("lookup_prob")
    /\ ret.err = "none"
    /\ sensor.max_range > 0
    /\ call.measured_dist = sensor.max_range * Milli
    /\ call.expected_dist = call.measured_dist
    /\ HitReading(call.expected_dist, call.measured_dist)
    /\ failure_measure(sensor.max_range) = Ok(call.measured_dist)
    /\ ret.val = FAdd(HitAndRandom(sensor.max_range, call.expected_dist,
                                   call.measured_dist), Weight02)

(* ------------------------------ the importance ------------------------ *)

(* importance on its own, on every candidate and measurement vector. *)
NextWeigh ==
    \/ DoNewSensor
    \/ DoImportance
    \/ NextCell

SpecWeigh == InitSparse /\ [][NextWeigh]_vars

(* The likelihood of each ray of the importance call on record: the i-th
   expected distance of shoot_rays(state, k) against the i-th measured
   distance, k the length of the measurement vector.                      *)
Factors ==
    LET k == Len(call.measured_distances)
        eds == shoot_rays(grid, sensor.max_range, call.state, k)
    IN  [i \in 1 .. k |->
            lookup_prob(sensor.max_range, eds[i], call.measured_distances[i])]

(* 1 * f[1] * ... * f[n], multiplied from the left. *)
RECURSIVE RunningProduct(_, _)
RunningProduct(f, n) ==
    IF n = 0 THEN IntOne ELSE FMul(RunningProduct(f, n - 1), f[n].val)

(* C15: the value importance returns is the product, started at 1, of
   lookup_prob(expected_i, measured_i) over every ray index i of the
   measurement vector, expected_i being the i-th distance of
   shoot_rays(pose, k) with k = len(measured_distances): each pair gives
   exactly one factor.                                                    *)
C15_ImportanceIsProduct ==
    (IsCall("importance") /\ ret.err = "none") =>
        LET f == Factors
        IN  /\ Len(f) = Len(call.measured_distances)
            /\ \A i \in 1 .. Len(f) : f[i].err = "none"
            /\ ret.val = RunningProduct(f, Len(f))

(* An importance of two rays whose two likelihoods differ and both count. *)
C15_Witness ==
    /\ IsCall("importance")
    /\ ret.err = "none"
    /\ Len(call.measured_distances) = 2
    /\ LET f == Factors
       IN  /\ f[1].val /= f[2].val
           /\ ret.val = FMul(FMul(IntOne, f[1].val), f[2].val)
           /\ ret.val /= f[1].val
           /\ ret.val /= f[2].val
           /\ ret.val /= Zero

(* ------------------------------ the fan of rays ----------------------- *)

(* The angle shoot_rays hands to get_distance for ray i (from 1) of the
   call on record.                                                        *)
CallAngle(i) == RayAngle(call.state[3], i - 1, call.k)

(* C16: shoot_rays(pose, k) returns exactly k expected distances in
   bearing order, element i being the distance of one get_distance call at
   the angle heading + i * (2 pi / k) wrapped, and the wrapped angle lies
   in [0, 2 pi) for every heading, negative and >= 2 pi included.        *)
C16_FanOfWrappedRays ==
    IsCall("shoot_rays") =>
        /\ ret.err = "none"
        /\ Len(ret.val) = call.k
        /\ \A i \in 1 .. call.k :
              /\ 0 <= CallAngle(i)
              /\ CallAngle(i) < Turn
              /\ ret.val[i] =
                     get_distance(grid, sensor.max_range, call.state[1],
                                  call.state[2], CallAngle(i)).dist

(* ------------------------------ closeness and weight ------------------ *)

(* The expected distances of candidate a of the sensor_fusion call on
   record, one per measured distance.                                     *)
ExpectedOf(a) ==
    shoot_rays(grid, sensor.max_range, call.samples[a],
               Len(call.measured_distances))

(* Candidate a is, ray by ray, at least as close to the measurements as
   candidate b.                                                           *)
AsClose(a, b) ==
    LET ea == ExpectedOf(a)
        eb == ExpectedOf(b)
    IN  \A i \in 1 .. Len(call.measured_distances) :
            Abs(ea[i] - call.measured_distances[i])
                <= Abs(eb[i] - call.measured_distances[i])

(* w >= v as Python compares floats: False when either is nan. *)
AtLeast(w, v) == IsNum(w) /\ IsNum(v) /\ FLeq(v, w)

(* C17: if candidate a's expected distances are, ray by ray, at least as
   close to the measured distances as candidate b's, sensor_fusion gives a
   a weight >= b's; so a candidate whose expected distances equal the
   measurements has the largest weight of the round.                      *)
C17_CloserWeighsMore ==
    (IsCall("sensor_fusion") /\ ret.err = "none") =>
        \A a, b \in 1 .. Len(call.samples) :
            AsClose(a, b) => AtLeast(ret.val[a], ret.val[b])

(* ------------------------------ a round, pass by pass ----------------- *)

(* sensor_fusion run one pass of importance's loop at a time.  tasks.of[i]
   is the evaluation of importance for candidate i: the passes its loop
   has made and its running weight (weight = 1 before the loop).
   tasks.mixed notes that a pass was made out of the order of the loop,
   which the loop of sensor_fusion never does.                            *)
StartFusion(samples, measured_distances) ==
    /\ Ready
    /\ pc' = "fusing"
    /\ call' = [op |-> "sensor_fusion", samples |-> samples,
                measured_distances |-> measured_distances]
    /\ tasks' = [of |-> [i \in 1 .. Len(samples) |->
                            [rays |-> 0, weight |-> Ok(IntOne)]],
                 mixed |-> FALSE]
    /\ UNCHANGED <<grid, sensor, ret, measured, memo, sampling>>

(* The pair (ed, md) of ray j of candidate i. *)
RayPair(i, j) ==
    << shoot_rays(grid, sensor.max_range, call.samples[i],
                  Len(call.measured_distances))[j],
       call.measured_distances[j] >>

(* The evaluation has returned or raised. *)
Finished(t) ==
    t.rays = Len(call.measured_distances) \/ t.weight.err /= "none"

(* An evaluation has raised: the exception leaves the loop over the
   candidates and sensor_fusion.                                          *)
Raised == \E i \in 1 .. Len(tasks.of) : tasks.of[i].weight.err /= "none"

(* The loop over the candidates has a pass of importance's loop left to
   run.                                                                   *)
CanScore ==
    /\ pc = "fusing"
    /\ ~Raised
    /\ \E i \in 1 .. Len(tasks.of) : ~Finished(tasks.of[i])

(* for s in samples: the candidate whose evaluation is running, the first
   that has not returned.                                                 *)
Current ==
    CHOOSE i \in 1 .. Len(tasks.of) :
        /\ ~Finished(tasks.of[i])
        /\ \A h \in 1 .. i - 1 : Finished(tasks.of[h])

(* One pass of importance's loop, weight *= sensor.lookup_prob(ed, md),
   for candidate i: the candidate the loop of sensor_fusion is at.  No
   pass runs once an evaluation has raised.                               *)
ScoreRay(i) ==
    /\ CanScore
    /\ i = Current
    /\ LET j == tasks.of[i].rays + 1
       IN  tasks' =
               [tasks EXCEPT !.of[i] =
                   [rays |-> j,
                    weight |-> Times(sensor.max_range, @.weight,
                                     RayPair(i, j))]]
    /\ UNCHANGED <<grid, sensor, pc, call, ret, measured, memo, sampling>>

(* sensor_fusion ends: with the exception of the evaluation that raised,
   or, every evaluation having returned, with the weights normalized.     *)
FinishFusion ==
    /\ pc = "fusing"
    /\ ~CanScore
    /\ ret' = IF Raised
              THEN tasks.of[CHOOSE i \in 1 .. Len(tasks.of) :
                               tasks.of[i].weight.err /= "none"].weight
              ELSE Normalize([i \in 1 .. Len(tasks.of) |->
                                 tasks.of[i].weight.val])
    /\ pc' = "done"
    /\ UNCHANGED <<grid, sensor, call, measured, memo, tasks, sampling>>

DoStartFusion ==
    \E v \in PairVectors(sensor.max_range) : StartFusion(samples_array, v)

DoScoreRay == \E i \in 1 .. Len(samples_array) : ScoreRay(i)

(* ------------------------------ candidates scored in any order -------- *)

(* The evaluations of importance handed to a pool of workers, as the spec
   lets an implementer run them: every candidate's evaluation is started
   at once, each a call of importance with its own expected distances and
   its own running weight (the locals of the call); grid, sensor and the
   measurement vector are shared and only read.                           *)
StartWorkers(samples, measured_distances) ==
    /\ Ready
    /\ pc' = "pooled"
    /\ call' = [op |-> "sensor_fusion", samples |-> samples,
                measured_distances |-> measured_distances]
    /\ tasks' = [of |-> [i \in 1 .. Len(samples) |->
                            [rays |-> 0, weight |-> Ok(IntOne)]],
                 mixed |-> FALSE]
    /\ UNCHANGED <<grid, sensor, ret, measured, memo, sampling>>

(* A pass of importance's loop that takes its running weight over from
   the evaluation of the candidate before, instead of starting from the
   weight = 1 of its own call.                                            *)
WorkerPassCarried(i) ==
    /\ pc = "pooled"
    /\ ~Raised
    /\ i \in 1 .. Len(tasks.of)
    /\ ~Finished(tasks.of[i])
    /\ LET j == tasks.of[i].rays + 1
           w == IF j = 1 /\ i > 1 THEN tasks.of[i - 1].weight
                ELSE tasks.of[i].weight
       IN  tasks' =
               [of |-> [tasks.of EXCEPT ![i] =
                           [rays |-> j,
                            weight |-> Times(sensor.max_range, w,
                                             RayPair(i, j))]],
                mixed |-> tasks.mixed
                          \/ \E h \in 1 .. i - 1 : ~Finished(tasks.of[h])]
    /\ UNCHANGED <<grid, sensor, pc, call, ret, measured, memo, sampling>>

(* One pass of importance's loop, weight *= sensor.lookup_prob(ed, md),
   made by the worker of candidate i, whatever passes the other workers
   have made: no worker waits for another.  An exception raised by an
   evaluation leaves importance, the loop over samples and sensor_fusion:
   no pass is made after it.                                              *)
WorkerPass(i) ==
    /\ pc = "pooled"
    /\ ~Raised
    /\ i \in 1 .. Len(tasks.of)
    /\ ~Finished(tasks.of[i])
    /\ LET j == tasks.of[i].rays + 1
       IN  tasks' =
               [of |-> [tasks.of EXCEPT ![i] =
                           [rays |-> j,
                            weight |-> Times(sensor.max_range, @.weight,
                                             RayPair(i, j))]],
                mixed |-> tasks.mixed
                          \/ \E h \in 1 .. i - 1 : ~Finished(tasks.of[h])]
    /\ UNCHANGED <<grid, sensor, pc, call, ret, measured, memo, sampling>>

(* The round ends: an evaluation raised, and sensor_fusion raises its
   exception; or every worker has ended, and the weights are gathered in
   the order of the candidates and normalized as sensor_fusion does.      *)
GatherWorkers ==
    /\ pc = "pooled"
    /\ IF Raised THEN TRUE
       ELSE \A i \in 1 .. Len(tasks.of) : Finished(tasks.of[i])
    /\ LET bad == { i \in 1 .. Len(tasks.of) :
                      tasks.of[i].weight.err /= "none" }
       IN  ret' = IF bad /= {}
                  THEN tasks.of[CHOOSE i \in bad : \A h \in bad : i <= h].weight
                  ELSE Normalize([i \in 1 .. Len(tasks.of) |->
                                     tasks.of[i].weight.val])
    /\ pc' = "done"
    /\ UNCHANGED <<grid, sensor, call, measured, memo, tasks, sampling>>

DoStartWorkers ==
    \E v \in PairVectors(sensor.max_range) : StartWorkers(samples_array, v)

DoWorkerPass == \E i \in 1 .. Len(samples_array) : WorkerPass(i)

(* Rounds over the notebook's candidates with the evaluations run by
   workers, their passes in every order.                                  *)
NextInterleaved ==
    \/ DoNewSensor
    \/ DoStartWorkers
    \/ DoWorkerPass
    \/ GatherWorkers
    \/ NextCell

SpecInterleaved == InitSparse /\ [][NextInterleaved]_vars

(* C18: scoring is order- and interleaving-independent: the weight of a
   candidate comes from the grid, the sensor, that candidate and the
   measurements alone, so the evaluations run in any order, their passes
   interleaved and no worker waiting for another, give the weight vector
   the sequential loop of sensor_fusion returns.                          *)
C18_InterleavedScoringSame ==
    (pc = "done" /\ call.op = "sensor_fusion") =>
        ret = sensor_fusion(grid, sensor.max_range, call.samples,
                            call.measured_distances)

(* Unequal weights gathered from workers whose passes were not made in
   the order of the loop.                                                 *)
C18_Witness ==
    /\ pc = "done"
    /\ call.op = "sensor_fusion"
    /\ Len(call.samples) >= 3
    /\ Len(call.measured_distances) >= 2
    /\ tasks.mixed
    /\ ret.err = "none"
    /\ \E a, b \in 1 .. Len(ret.val) : ret.val[a] /= ret.val[b]
    /\ ret = sensor_fusion(grid, sensor.max_range, call.samples,
                           call.measured_distances)

(* ------------------------------ random sampling ----------------------- *)

(* shapely's Polygon(corners).contains(Point(x, y)) for the rectangles
   extract_polygons builds: the point is in the interior, the boundary
   excluded.                                                              *)
Contains(corners, x, y) ==
    LET xs == { corners[n][1] : n \in 1 .. Len(corners) }
        ys == { corners[n][2] : n \in 1 .. Len(corners) }
    IN  /\ \E lo \in xs : lo < x
        /\ \E hi \in xs : x < hi
        /\ \E lo \in ys : lo < y
        /\ \E hi \in ys : y < hi

(* One pass of extract_polygons: the (polygon, height) of a data row. *)
Obstacle(row) ==
    LET corners == << << row.north - row.d_north, row.east - row.d_east >>,
                     << row.north + row.d_north, row.east - row.d_east >>,
                     << row.north + row.d_north, row.east + row.d_east >>,
                     << row.north - row.d_north, row.east + row.d_east >> >>
        height == row.alt + row.d_alt
    IN  << corners, height >>

extract_polygons(data) == [i \in 1 .. Len(data) |-> Obstacle(data[i])]

(* collides: the first polygon that contains (x, y) and is not lower than
   the point decides.                                                     *)
collides(polys, point) ==
    \E n \in 1 .. Len(polys) :
        Contains(polys[n][1], point[1], point[2]) /\ point[3] <= polys[n][2]

(* Rows of the obstacle data and sampled points. *)
MaxObstacles == 2

MaxPoints == 2

Rows ==
    { [north |-> n, east |-> 1, alt |-> 1, d_north |-> 1, d_east |-> 1,
       d_alt |-> d] : n \in {1, 3}, d \in {0, 1} }

Datas == SeqsUpTo(Rows, MaxObstacles)

Points == { << x, 1, z >> : x \in {1, 2}, z \in 0 .. 3 }

PointLists == SeqsUpTo(Points, MaxPoints)

(* The lidar notebook, which the sampling notebook leaves alone. *)
lidar == <<grid, sensor, measured, memo, tasks>>

InitSampling ==
    /\ Init
    /\ grid = [c \in Cells |-> 0]

(* polygons = extract_polygons(data) *)
ExtractPolygons(data) ==
    /\ pc = "ready"
    /\ pc' = "extracted"
    /\ polygons' = extract_polygons(data)
    /\ UNCHANGED <<lidar, call, ret, sample_list, to_keep, point_i>>

(* samples = list(zip(xvals, yvals, zvals)) *)
DrawSamples(points) ==
    /\ pc = "extracted"
    /\ pc' = "sampled"
    /\ sample_list' = points
    /\ UNCHANGED <<lidar, call, ret, polygons, to_keep, point_i>>

(* to_keep = [] *)
StartFilter ==
    /\ pc = "sampled"
    /\ pc' = "filtering"
    /\ to_keep' = << >>
    /\ point_i' = 0
    /\ UNCHANGED <<lidar, call, ret, polygons, sample_list>>

(* for point in samples: if not collides(polygons, point):
   to_keep.append(point)                                                  *)
FilterPoint ==
    /\ pc = "filtering"
    /\ point_i < Len(sample_list)
    /\ LET point == sample_list[point_i + 1]
           hit == collides(polygons, point)
       IN  /\ call' = [op |-> "collides", point |-> point]
           /\ ret' = Ok(hit)
           /\ to_keep' = IF ~hit THEN Append(to_keep, point) ELSE to_keep
    /\ point_i' = point_i + 1
    /\ UNCHANGED <<lidar, pc, polygons, sample_list>>

(* The loop has run out of samples. *)
EndFilter ==
    /\ pc = "filtering"
    /\ point_i = Len(sample_list)
    /\ pc' = "filtered"
    /\ UNCHANGED <<lidar, call, ret, sampling>>

DoExtractPolygons == \E data \in Datas : ExtractPolygons(data)

DoDrawSamples == \E points \in PointLists : DrawSamples(points)

NextSampling ==
    \/ DoExtractPolygons
    \/ DoDrawSamples
    \/ StartFilter
    \/ FilterPoint
    \/ EndFilter

SpecSampling == InitSampling /\ [][NextSampling]_vars

(* The point's (x, y) is contained by a polygon that is higher than the
   point.                                                                 *)
BelowSomeRoof(point) ==
    \E n \in 1 .. Len(polygons) :
        Contains(polygons[n][1], point[1], point[2])
            /\ point[3] < polygons[n][2]

(* The samples among the first n for which collides is False, in order. *)
RECURSIVE FreeOf(_)
FreeOf(n) ==
    IF n = 0 THEN << >>
    ELSE IF collides(polygons, sample_list[n]) THEN FreeOf(n - 1)
    ELSE Append(FreeOf(n - 1), sample_list[n])

(* C19: collides returns True exactly when some obstacle polygon contains
   the point's (x, y) and the point's z is less than that polygon's
   height; the filtering loop keeps in to_keep exactly the samples for
   which collides is False, in their original order.                      *)
C19_CollidesBelowHeight ==
    /\ (pc \in {"filtering", "filtered"} /\ call.op = "collides") =>
           (ret.val <=> BelowSomeRoof(call.point))
    /\ pc \in {"filtering", "filtered"} => to_keep = FreeOf(point_i)

(* ------------------------------ the location -------------------------- *)

(* (x + max_range * cos(angle), y + max_range * sin(angle)) of the call on
   record, in thousandths.                                                *)
CallEndpoint ==
    << EndPoint(call.x, sensor.max_range, CosMicro(call.angle)),
       EndPoint(call.y, sensor.max_range, SinMicro(call.angle)) >>

(* C20: the location get_distance returns is the hit cell when an occupied
   cell was found, and otherwise (the ray left the grid or ran its length
   unobstructed) the endpoint (x + max_range * cos(angle),
   y + max_range * sin(angle)), neither clipped nor truncated; it is the
   hit cell if and only if the distance came from an occupied cell.       *)
C20_LocationHitOrEndpoint ==
    IsCall("get_distance") =>
        LET ln == CallLine
            s == FirstStop(ln)
            found == s > 0 /\ Occupied(LineCell(ln, s))
        IN  /\ found => ret.val.loc = CellLoc(LineCell(ln, s))
            /\ ~found => ret.val.loc = CallEndpoint
            /\ ret.val.hit <=> found
            /\ ret.val.hit =>
                   ret.val.dist = Norm(call.x, call.y, LineCell(ln, s))

(* Nothing hit: the location is an endpoint beyond the grid and between
   two cells.                                                             *)
C20_Witness ==
    /\ IsCall("get_distance")
    /\ ~ret.val.hit
    /\ ret.val.loc = CallEndpoint
    /\ ret.val.loc[1] > GridW * Milli
    /\ ret.val.loc[2] % Milli /= 0
    /\ ret.val.loc /=
           CellLoc(LastCell(sensor.max_range, call.x, call.y, call.angle))

(* ------------------------------ the hit distance ---------------------- *)

(* The squared distance, in thousandths, between two points. *)
Squared(p, q) ==
    (p[1] - q[1]) * (p[1] - q[1]) + (p[2] - q[2]) * (p[2] - q[2])

(* C21: on a hit the distance get_distance reports is the Euclidean
   distance from the pose (x, y) as given, not truncated, to the hit
   cell's coordinates (what the spec calls its center); the truncation of
   the pose only starts the line.                                         *)
C21_HitDistanceFromPose ==
    (IsCall("get_distance") /\ ret.val.hit) =>
        LET d == ret.val.dist
            sq == Squared(<< call.x, call.y >>, ret.val.loc)
        IN  /\ d >= 0
            /\ d * d <= sq
            /\ sq < (d + 1) * (d + 1)

(* A hit from a pose between cell coordinates: the distance from the
   truncated pose is another one.                                         *)
C21_Witness ==
    /\ IsCall("get_distance")
    /\ ret.val.hit
    /\ call.x % Milli /= 0
    /\ ret.val.dist = Norm(call.x, call.y,
                           << ret.val.loc[1] \div Milli,
                              ret.val.loc[2] \div Milli >>)
    /\ ret.val.dist /=
           ISqrt(Squared(CellLoc(StartCell(call.x, call.y)), ret.val.loc))


(* ------------------------------ the rasterized line ------------------- *)

ChebyshevStep(c, d) == Max(Abs(c[1] - d[1]), Abs(c[2] - d[2]))

(* C22: the cell sequence bresenham enumerates for a get_distance call
   starts at (int(x), int(y)), ends at (int(x2), int(y2)), holds no cell
   twice, and any two consecutive cells differ by at most 1 in each
   coordinate; the walk takes its cells from the front of that sequence,
   so a hit is the cell the sequence holds at the walk's last position.  *)
C22_LineIsConnected ==
    IsCall("get_distance") =>
        \A cs \in { CallCells } :
          LET n == Len(cs)
          IN
            /\ n >= 1
            /\ cs[1] = StartCell(call.x, call.y)
            /\ cs[n] = LastCell(sensor.max_range, call.x, call.y, call.angle)
            /\ Cardinality({ cs[i] : i \in 1 .. n }) = n
            /\ \A i \in 1 .. n - 1 : ChebyshevStep(cs[i], cs[i + 1]) = 1
            /\ ret.val.seen \in 1 .. n
            /\ ret.val.hit => ret.val.loc = CellLoc(cs[ret.val.seen])

(* A call whose line is neither straight nor diagonal and is walked over
   several cells up to a hit.                                            *)
C22_Witness ==
    /\ IsCall("get_distance")
    /\ CallLine.dy > 0
    /\ CallLine.dx > CallLine.dy
    /\ Len(CallCells) >= 3
    /\ ret.val.hit
    /\ ret.val.seen >= 3


(* ------------------------------ termination --------------------------- *)

(* Scoring rounds run one pass of importance's loop at a time, next to
   single rays; a pass that can run does run, and so does the
   normalization once every evaluation has ended.                        *)
NextRounds ==
    \/ DoNewSensor
    \/ DoGetDistance
    \/ DoStartFusion
    \/ DoScoreRay
    \/ FinishFusion
    \/ NextCell

(* A pass of importance's loop has run: some evaluation has made one
   more pass.                                                             *)
ScorePass ==
    /\ pc = "fusing"
    /\ \E i \in 1 .. Len(tasks.of) : tasks'.of[i].rays = tasks.of[i].rays + 1

(* Weak fairness of DoScoreRay, written out with CanScore for its
   enabling condition and ScorePass for its step.                        *)
ScoreRayFair == []<>(~CanScore) \/ []<><<ScorePass>>_vars

(* The step of FinishFusion as pc shows it: no pass is left to run, or
   an evaluation has raised, and the round is done.                       *)
FusionEnds ==
    /\ pc = "fusing"
    /\ ~CanScore
    /\ pc' = "done"

(* The interpreter keeps running the round it is in: a pass that can run
   does run, and so does the normalization once every evaluation has
   ended.                                                                *)
SpecRounds ==
    /\ InitSparse
    /\ [][NextRounds]_vars
    /\ ScoreRayFair
    /\ WF_pc(FusionEnds)

(* The number of cells along the grid's diagonal, rounded down. *)
GridDiagonal == ISqrt(GridW * GridW + GridH * GridH)

(* The cells a get_distance call inspects: no more than the line has, no
   more than the grid's diagonal and one cell outside the grid, and up to
   the first cell that is outside the grid or occupied.                   *)
WalkBounded ==
    IsCall("get_distance") =>
        LET ln == CallLine
            c0 == StartCell(call.x, call.y)
            c1 == LastCell(sensor.max_range, call.x, call.y, call.angle)
        IN  /\ LineLen(ln) = Max(Abs(c1[1] - c0[1]), Abs(c1[2] - c0[2])) + 1
            /\ ret.val.seen <= LineLen(ln)
            /\ ret.val.seen <= GridDiagonal + 1
            /\ ret.val.seen =
                   IF FirstStop(ln) = 0 THEN LineLen(ln) ELSE FirstStop(ln)

(* C23: every get_distance call inspects at most
   max(|int(x2) - int(x)|, |int(y2) - int(y)|) + 1 cells, stops at the
   first cell that is outside the grid or occupied, and so inspects no
   more cells than the grid's diagonal plus one; every scoring round that
   has started comes to its end.                                          *)
C23_WalkAndRoundTerminate ==
    /\ []WalkBounded
    /\ (pc = "fusing") ~> (pc = "done")

(* A ray far longer than the grid, stopped at the one cell outside the
   grid after as many cells as the grid is wide.                         *)
C23_Witness ==
    /\ IsCall("get_distance")
    /\ LineLen(CallLine) > GridDiagonal + 1
    /\ ~ret.val.hit
    /\ ret.val.seen = Max(GridW, GridH) + 1
    /\ ret.val.seen = FirstStop(CallLine)


(* ------------------------------ the calls of a round ------------------ *)

(* The position of the first outcome of a sequence that is an error; 0
   when none is.                                                          *)
FirstRaise(outcomes) ==
    LET bad == { i \in 1 .. Len(outcomes) : outcomes[i].err /= "none" }
    IN  IF bad = {} THEN 0 ELSE CHOOSE i \in bad : \A j \in bad : i <= j

(* The calls one importance makes: shoot_rays casts its k rays first,
   then the loop evaluates lookup_prob pair by pair until one raises.     *)
ImportanceCalls(grid_map, max_range, state, measured_distances) ==
    LET k == Len(measured_distances)
        casts == RayCasts(grid_map, max_range, state, k)
        pairs == Zip([i \in 1 .. k |-> casts[i].dist], measured_distances)
        ps == [i \in 1 .. Len(pairs) |->
                  lookup_prob(max_range, pairs[i][1], pairs[i][2])]
        stop == FirstRaise(ps)
    IN  [casts |-> Len(casts),
         lookups |-> IF stop = 0 THEN Len(ps) ELSE stop,
         raised |-> stop /= 0]

(* The calls sensor_fusion makes over samples[1 .. n]: candidate by
   candidate, until an importance raises.                                 *)
RECURSIVE FusionCalls(_, _, _, _, _)
FusionCalls(grid_map, max_range, samples, measured_distances, n) ==
    IF n = 0 THEN [casts |-> 0, lookups |-> 0, raised |-> FALSE]
    ELSE LET before == FusionCalls(grid_map, max_range, samples,
                                   measured_distances, n - 1)
             this == ImportanceCalls(grid_map, max_range, samples[n],
                                     measured_distances)
         IN  IF before.raised THEN before
             ELSE [casts |-> before.casts + this.casts,
                   lookups |-> before.lookups + this.lookups,
                   raised |-> this.raised]

(* The calls sense makes: shoot_rays casts its rays first, then the loop
   draws a measure per distance until one raises.                         *)
SenseCalls(grid_map, max_range, ground_truth_state, rays, draws) ==
    LET casts == RayCasts(grid_map, max_range, ground_truth_state, rays)
        ms == [i \in 1 .. Len(casts) |->
                  measure(max_range, casts[i].dist, draws[i].p,
                          draws[i].noise, draws[i].draw)]
        stop == FirstRaise(ms)
    IN  [casts |-> Len(casts),
         draws |-> IF stop = 0 THEN Len(ms) ELSE stop,
         raised |-> stop /= 0]

(* C24: a scoring round over n candidates and k measurements makes exactly
   n * k get_distance calls and exactly n * k lookup_prob calls, and sense
   makes exactly k get_distance calls and then exactly k measure draws and
   returns the k readings in bearing order.                               *)
C24_ExactCallCounts ==
    /\ (pc = "done" /\ call.op = "sensor_fusion") =>
           LET n == Len(call.samples)
               k == Len(call.measured_distances)
               made == FusionCalls(grid, sensor.max_range, call.samples,
                                   call.measured_distances, n)
           IN  made.casts = n * k /\ made.lookups = n * k
    /\ (pc \in {"done", "sensed"} /\ call.op = "sense") =>
           LET made == SenseCalls(grid, sensor.max_range, call.state,
                                  call.rays, call.draws)
               dists == shoot_rays(grid, sensor.max_range, call.state,
                                   call.rays)
           IN  /\ made.casts = call.rays
               /\ made.draws = call.rays
               /\ ret.err = "none"
               /\ Len(ret.val) = call.rays
               /\ \A i \in 1 .. call.rays :
                      Ok(ret.val[i]) =
                          measure(sensor.max_range, dists[i], call.draws[i].p,
                                  call.draws[i].noise, call.draws[i].draw)


(* ------------------------------ what the calls leave alone ------------ *)

(* importance of the ground truth for the measured distances. *)
DoTruthImportance == \E g \in GroundTruths : Importance(g, measured)

(* sensor_fusion on the measured distances, run pass by pass. *)
DoStartMeasured == measured /= << >> /\ StartFusion(samples_array, measured)

(* Every function of the notebook, the scoring round as the statement of
   the notebook and pass by pass.                                         *)
NextFrame ==
    \/ DoNewSensor
    \/ DoTruthDistance
    \/ DoTruthRays
    \/ DoTruthImportance
    \/ DoSenseOne
    \/ DoMeasuredFusion
    \/ DoStartMeasured
    \/ DoScoreRay
    \/ FinishFusion
    \/ NextCell

SpecFrame == InitSparse /\ [][NextFrame]_vars

(* A step of sense, sensor_fusion, importance, shoot_rays or get_distance:
   every step but the construction of the sensor and the next cell.       *)
CallStep == pc' /= "ready"

(* C25: sense, sensor_fusion, importance, shoot_rays and get_distance
   leave the grid and the sensor's max_range unchanged; the measurement
   vector changes only by the assignment of what sense returns;
   sensor_fusion leaves the measurement vector it is handed and the
   candidate list unchanged, within a round and at its normalization,
   which writes the returned weights only.                                *)
C25_CallsLeaveInputs ==
    [][CallStep =>
          /\ grid' = grid
          /\ sensor' = sensor
          /\ call'.op /= "sense" => measured' = measured
          /\ memo'.weights /= memo.weights =>
                 /\ call'.measured_distances = measured
                 /\ call'.samples = samples_array
                 /\ memo'.weights.ret = ret'
          /\ pc = "fusing" =>
                 /\ call' = call
                 /\ pc' = "done" => tasks' = tasks]_vars

(* weights bound by sensor_fusion for the vector sense returned, on a
   grid with an occupied cell: the vector is still the one sensed.        *)
C25_Witness ==
    /\ pc = "done"
    /\ call.op = "sensor_fusion"
    /\ ret.err = "none"
    /\ measured /= << >>
    /\ call.measured_distances = measured
    /\ memo.weights.call = call
    /\ memo.weights.ret = ret
    /\ ret.val /= measured
    /\ \E c \in Cells : grid[c] = 1
    /\ sensor.max_range > 0


(* ------------------------------ the floor of the likelihood ----------- *)

(* A range whose inverse is not a float: 1 / 3 is rounded, and so is
   0.03 * (1 / 3).                                                        *)
ThirdRange == 3

(* A reading so far from every expected distance of the sensors here
   that the Gaussian term of lookup_prob is 0.0.                          *)
FarReading == 50 * Milli

DoNewThirdSensor == NewSensor(ThirdRange)

DoFarLookupProb ==
    \E e \in Expecteds(sensor.max_range) : LookupProb(e, FarReading)

NextPositive ==
    \/ DoNewSensor
    \/ DoNewThirdSensor
    \/ DoLookupProb
    \/ DoFarLookupProb
    \/ DoImportance
    \/ DoArrayFusion
    \/ NextCell

SpecPositive == InitSparse /\ [][NextPositive]_vars

(* 0.03 * (1 / max_range) as lookup_prob computes it. *)
RandomProb(max_range) == FMul(Weight03, FDiv(FInt(1), FInt(max_range)))

(* Numbers m * 10^e without rounding: the exact product of a sequence of
   floats and the exact power of one, and their order (for m >= 0).       *)
RECURSIVE ExactProduct(_, _)
ExactProduct(f, n) ==
    IF n = 0 THEN [m |-> 1, e |-> 0]
    ELSE LET rest == ExactProduct(f, n - 1)
         IN  [m |-> rest.m * f[n].m, e |-> rest.e + f[n].e]

ExactPower(a, n) == ExactProduct([i \in 1 .. n |-> a], n)

ExactGeq(x, y) ==
    LET d == x.e - y.e
    IN  IF y.m = 0 THEN TRUE
        ELSE IF x.m = 0 THEN FALSE
        ELSE IF d >= 10 THEN TRUE
        ELSE IF d <= -10 THEN FALSE
        ELSE IF d >= 0 THEN x.m >= (y.m + Pow10(d) - 1) \div Pow10(d)
        ELSE x.m \div Pow10(-d) >= y.m

(* The likelihoods importance multiplies for a candidate. *)
FactorsOf(state, measured_distances) ==
    LET k == Len(measured_distances)
        eds == shoot_rays(grid, sensor.max_range, state, k)
    IN  [i \in 1 .. k |->
            lookup_prob(sensor.max_range, eds[i], measured_distances[i])]

(* Every likelihood of a candidate is a number at least the floor, so
   their exact product is at least the floor's exact power and above 0.  *)
AboveFloor(state, measured_distances) ==
    LET floor == RandomProb(sensor.max_range)
        fs == FactorsOf(state, measured_distances)
        vals == [i \in 1 .. Len(fs) |-> fs[i].val]
        exact == ExactProduct(vals, Len(vals))
    IN  /\ \A i \in 1 .. Len(fs) :
               /\ fs[i].err = "none"
               /\ fs[i].val.k = "num"
               /\ FLeq(floor, fs[i].val)
        /\ ExactGeq(exact, ExactPower(floor, Len(vals)))
        /\ exact.m > 0

(* v >= 0.03 / max_range, the quotient taken exactly: with v = m * 10^e,
   m * 10^e * 100 * max_range >= 3 (max_range at most some hundreds).     *)
AtLeastQuotient(v, max_range) ==
    IF v.e >= 0 THEN v.m * max_range >= 1
    ELSE IF v.e < -8 THEN FALSE
    ELSE v.m * 100 * max_range >= 3 * Pow10(-v.e)

(* Every likelihood of a candidate is a number at least 0.03 / max_range,
   from which the bound (0.03 / max_range)^k of their exact product
   follows.                                                               *)
AboveQuotient(state, measured_distances) ==
    LET fs == FactorsOf(state, measured_distances)
    IN  \A i \in 1 .. Len(fs) :
            /\ fs[i].err = "none"
            /\ fs[i].val.k = "num"
            /\ AtLeastQuotient(fs[i].val, sensor.max_range)

(* C26 as the spec states it: for a sensor with max_range > 0,
   lookup_prob is at least 0.03 / max_range > 0 for every pair of
   arguments, and so is every likelihood importance multiplies, for
   every candidate of a non-empty list.  Violated: lookup_prob adds the
   Gaussian term to 0.03 * (1 / max_range), which for max_range = 3 is a
   float below 0.03 / 3, and returns it when the Gaussian term is 0.0.   *)
C26_QuotientFloor ==
    (pc = "done" /\ sensor.max_range > 0) =>
        /\ call.op = "lookup_prob" =>
               /\ ret.err = "none"
               /\ ret.val.k = "num"
               /\ AtLeastQuotient(ret.val, sensor.max_range)
        /\ call.op = "importance" =>
               AboveQuotient(call.state, call.measured_distances)
        /\ call.op = "sensor_fusion" =>
               /\ Len(call.samples) >= 1
               /\ \A i \in 1 .. Len(call.samples) :
                      AboveQuotient(call.samples[i], call.measured_distances)

(* C26, amended: for a sensor with max_range > 0, lookup_prob is at least
   the float 0.03 * (1 / max_range) > 0 it adds the Gaussian term to, for
   every pair of arguments; so every likelihood importance multiplies is,
   the exact product of a candidate's k likelihoods is at least the k-th
   power of that float and above 0, and so is every term of the sum
   sensor_fusion divides by, for a non-empty candidate list.              *)
C26_LikelihoodFloor ==
    (pc = "done" /\ sensor.max_range > 0) =>
        /\ RandomProb(sensor.max_range).k = "num"
        /\ RandomProb(sensor.max_range).m > 0
        /\ call.op = "lookup_prob" =>
               /\ ret.err = "none"
               /\ ret.val.k = "num"
               /\ FLeq(RandomProb(sensor.max_range), ret.val)
               /\ ret.val.m > 0
        /\ call.op = "importance" =>
               AboveFloor(call.state, call.measured_distances)
        /\ call.op = "sensor_fusion" =>
               /\ Len(call.samples) >= 1
               /\ \A i \in 1 .. Len(call.samples) :
                      AboveFloor(call.samples[i], call.measured_distances)

(* lookup_prob on a sensor of range 3, the reading below the range and
   too far from the expected distance for the Gaussian term to count: the
   likelihood returned is the float 0.03 * (1 / 3) itself, above 0 and
   below 0.03 / 3.                                                        *)
C26_Witness ==
    /\ pc = "done"
    /\ sensor.max_range = ThirdRange
    /\ call.op = "lookup_prob"
    /\ call.measured_dist /= sensor.max_range * Milli
    /\ ret.err = "none"
    /\ ret.val = RandomProb(sensor.max_range)
    /\ ret.val.m > 0
    /\ ~AtLeastQuotient(ret.val, sensor.max_range)


(* ------------------------------ grid accesses ------------------------- *)

(* C27: get_distance reads a grid cell only after that cell passed the
   inbounds check of the same pass of the loop: the cells read are cells
   of the grid, one per cell taken from the line except a last cell that
   is outside the grid, which is never read.                              *)
C27_ReadsInBounds ==
    IsCall("get_distance") =>
        LET ln == CallLine
            seen == ret.val.seen
            reads == ret.val.reads
        IN  /\ \A j \in 1 .. reads :
                   /\ inbounds(grid, LineCell(ln, j)[1], LineCell(ln, j)[2])
                   /\ LineCell(ln, j) \in DOMAIN grid
            /\ reads \in {seen - 1, seen}
            /\ reads = seen - 1 <=>
                   ~inbounds(grid, LineCell(ln, seen)[1], LineCell(ln, seen)[2])

(* A walk over cells of the grid that ends at a cell with a negative
   index, which is not read.                                              *)
C27_Witness ==
    /\ IsCall("get_distance")
    /\ ret.val.reads >= 2
    /\ ret.val.seen = ret.val.reads + 1
    /\ \E n \in 1 .. 2 : LineCell(CallLine, ret.val.seen)[n] < 0


(* ------------------------------ the empty measurement vector ---------- *)

(* C28: with an empty measurement vector shoot_rays casts no ray,
   importance returns the empty product 1 for every candidate, and
   sensor_fusion returns the uniform distribution 1 / n over its n >= 1
   candidates.                                                            *)
C28_EmptyVectorUniform ==
    /\ (IsCall("importance") /\ Len(call.measured_distances) = 0) =>
           /\ RayCasts(grid, sensor.max_range, call.state, 0) = << >>
           /\ ret = Ok(IntOne)
    /\ (/\ IsCall("sensor_fusion")
        /\ Len(call.measured_distances) = 0
        /\ Len(call.samples) >= 1) =>
           /\ ret.err = "none"
           /\ Len(ret.val) = Len(call.samples)
           /\ \A i \in 1 .. Len(call.samples) :
                  ret.val[i] = FDiv(FInt(1), FInt(Len(call.samples)))


(* ------------------------------ a pose on an occupied cell ------------ *)

(* C29: when the cell (int(x), int(y)) of the pose is in bounds and
   occupied, get_distance stops at the first cell of the line: it returns
   that cell as the location and the distance from (x, y) to it, which is
   0 for integer pose coordinates and below one cell diagonal otherwise,
   whatever the angle, and inspects no further cell.                      *)
C29_OccupiedStartCell ==
    (IsCall("get_distance") /\ Occupied(StartCell(call.x, call.y))) =>
        LET c0 == StartCell(call.x, call.y)
        IN  /\ ret.val.hit
            /\ ret.val.loc = CellLoc(c0)
            /\ ret.val.dist = Norm(call.x, call.y, c0)
            /\ (call.x % Milli = 0 /\ call.y % Milli = 0) => ret.val.dist = 0
            /\ Squared(<< call.x, call.y >>, CellLoc(c0)) < 2 * Milli * Milli
            /\ ret.val.dist <= Diagonal
            /\ ret.val.seen = 1
            /\ ret.val.reads = 1

(* A pose between cell coordinates and left of the grid's first column,
   truncated onto an occupied cell, with a line that goes on over further
   cells.                                                                 *)
C29_Witness ==
    /\ IsCall("get_distance")
    /\ call.x < 0
    /\ Occupied(StartCell(call.x, call.y))
    /\ ret.val.hit
    /\ ret.val.dist > 0
    /\ ret.val.seen = 1
    /\ LineLen(CallLine) >= 3


(* ------------------------------ the regime weights -------------------- *)

(* The probabilities of the three regimes as measure's thresholds give
   them, in thousandths: 0.95, 0.98 - 0.95, 1 - 0.98.                    *)
ThresholdWeights ==
    << HitBelow, RandomBelow - HitBelow, Milli - RandomBelow >>

(* The weights of lookup_prob's mixture: 0.95, 0.03, 0.02. *)
MixtureWeights == << Weight95, Weight03, Weight02 >>

(* n thousandths as a float. *)
Thousandths(n) == FNorm(n, -3)

(* lookup_prob's value written with the weights of measure's thresholds. *)
MixtureOf(w, max_range, expected_dist, measured_dist) ==
    FAdd(FAdd(FMul(Thousandths(w[1]),
                   NormPdf(measured_dist - expected_dist)),
              FMul(Thousandths(w[2]), FDiv(FInt(1), FInt(max_range)))),
         IF measured_dist = max_range * Milli
         THEN Thousandths(w[3]) ELSE Zero)

(* The branch of measure the draw p falls in when the regimes have the
   weights w: the cumulative thresholds w[1] and w[1] + w[2].             *)
BranchByWeights(w, max_range, expected_dist, p, noise, draw) ==
    IF p <= w[1] THEN hit_measure(expected_dist, noise)
    ELSE IF p <= w[1] + w[2] THEN random_measure(max_range, draw)
    ELSE failure_measure(max_range)

(* C30: the regime weights measure's thresholds give (0.95, 0.98 - 0.95,
   1 - 0.98) and the weights of lookup_prob's mixture (0.95, 0.03, 0.02)
   are the same constants and sum to 1; every sensor holds its max_range
   and nothing else, and every measure and every lookup_prob, whatever
   the constructor argument and whatever was called before, acts by
   these weights.                                                         *)
C30_RegimeWeightsFixed ==
    /\ \A i \in 1 .. 3 : Thousandths(ThresholdWeights[i]) = MixtureWeights[i]
    /\ ThresholdWeights[1] + ThresholdWeights[2] + ThresholdWeights[3] = Milli
    /\ FAdd(FAdd(Weight95, Weight03), Weight02) = FInt(1)
    /\ sensor.made => sensor = LidarSensor(sensor.max_range)
    /\ (IsCall("measure")) =>
           ret = BranchByWeights(<< 950, 30, 20 >>, sensor.max_range,
                                 call.expected_dist, call.p, call.noise,
                                 call.draw)
    /\ (IsCall("lookup_prob") /\ ret.err = "none") =>
           /\ ret.val = MixtureOf(ThresholdWeights, sensor.max_range,
                                  call.expected_dist, call.measured_dist)
           /\ ret.val = MixtureOf(<< 950, 30, 20 >>, sensor.max_range,
                                  call.expected_dist, call.measured_dist)

(* A likelihood of the notebook's long-range sensor in which all three
   weights count: the reading is max_range and so is the expected
   distance.                                                              *)
C30_Witness ==
    /\ IsCall("lookup_prob")
    /\ sensor.max_range = max_sensor_range
    /\ call.measured_dist = sensor.max_range * Milli
    /\ call.expected_dist = call.measured_dist
    /\ ret.err = "none"
    /\ FLess(HitAndRandom(sensor.max_range, call.expected_dist,
                          call.measured_dist), ret.val)
    /\ FLess(FAdd(Weight02, RandomProb(sensor.max_range)), ret.val)

=============================================================================
